---- MODULE Spec2Model ----
(***************************************************************************)
(* Model of the VetEye service assistant (src/app.py and its helpers):     *)
(* the conversation state machine, the per-state message handlers and the  *)
(* appointment-slot generation.                                            *)
(*                                                                         *)
(* Text is modelled as a sequence of one-character strings, so that        *)
(* lower(), startswith(), replace(), split(), len() and the substring test *)
(* are computed the way the Python code computes them.                     *)
(***************************************************************************)
EXTENDS Integers, Sequences, FiniteSets, TLC

VARIABLES
    context,         \* st.session_state.context : ConversationContext
    session,         \* the other keys of st.session_state
    calendar_table,  \* records of the Airtable table 'Calendar'
    today,           \* ordinal of the date datetime.now() falls on
    prompt,          \* the user message being handled (main, line 867)
    response,        \* the reply produced for it (main, line 885-913)
    set_state_call,  \* argument and return value of the set_state call made
    generated,       \* local available_slots of the last slot generation
    restarts,        \* number of context resets done by handle_end
    calls,           \* the calls to the booking store, the ranking engine
                     \* and the language model made for the message, and
                     \* whether each returned or raised
    knowledge_base,  \* KnowledgeBase: the three loaded collections
    kb_call,         \* the last find_solution call: arguments, searches
                     \* made and returned value
    calendar_call,   \* the last CalendarClient call: arguments, the clock
                     \* it read and the returned value
    parked           \* st.session_state of the browser session whose
                     \* script run is not the one in progress

vars == <<context, session, calendar_table, today, prompt, response,
          set_state_call, generated, restarts, calls, knowledge_base,
          kb_call, calendar_call, parked>>

-----------------------------------------------------------------------------
(* Bounds of the exploration *)

\* longest state_history explored when set_state is exercised on its own
MaxHistory == 3

\* restarts from END explored in one session
MaxRestarts == 1

\* messages of supplementary information explored in CHECK_RESOLUTION
MaxInfo == 1

\* the generation dates explored: NumStartDays days from FirstDay on
\* (738963 is Monday 18.03.2024; the ten days ahead cross the change to
\* summer time on 31.03.2024 and the end of the month)
FirstDay == 738963
NumStartDays == 7

-----------------------------------------------------------------------------
(* Python values *)

None == [none |-> TRUE]

NoCall == [called |-> FALSE]

\* a call to the booking store: ok = FALSE when it raised
Called(name, ok) == [call |-> name, ok |-> ok]

\* a call to the ranking engine, with the device model passed to it
CalledFor(name, ok, model) == [call |-> name, ok |-> ok, model |-> model]

\* KnowledgeBase.__init__: the content of documents.json,
\* troubleshooting.json and usage.json ([] for a file that is missing)
KnowledgeBase(documents, troubleshooting, usage_guides) ==
    [documents |-> documents,
     troubleshooting |-> troubleshooting,
     usage_guides |-> usage_guides]

\* a reply text, named by what it says
Reply(kind) == [kind |-> kind]

\* a reply text with a variable part
ReplyFor(kind, detail) == [kind |-> kind, detail |-> detail]

-----------------------------------------------------------------------------
(* str methods used by the handlers *)

UpperLetters == <<"A","B","C","D","E","F","G","H","I","J","K","L","M",
                  "N","O","P","Q","R","S","T","U","V","W","X","Y","Z">>

LowerLetters == <<"a","b","c","d","e","f","g","h","i","j","k","l","m",
                  "n","o","p","q","r","s","t","u","v","w","x","y","z">>

Digits == {"0","1","2","3","4","5","6","7","8","9"}

IsUpper(c) == \E i \in 1..26 : UpperLetters[i] = c

LowerChar(c) ==
    IF IsUpper(c) THEN LowerLetters[CHOOSE i \in 1..26 : UpperLetters[i] = c]
    ELSE c

lower(s) == [i \in 1..Len(s) |-> LowerChar(s[i])]

IsSpace(c) == c = " "

\* prefix test of str.startswith
startswith(s, p) ==
    /\ Len(s) >= Len(p)
    /\ \A i \in 1..Len(p) : s[i] = p[i]

\* p occurs in s at position i
OccursAt(s, p, i) ==
    /\ i + Len(p) - 1 <= Len(s)
    /\ \A k \in 1..Len(p) : s[i + k - 1] = p[k]

\* the Python test  p in s  on two strings
contains(s, p) == \E i \in 1..(Len(s) + 1) : OccursAt(s, p, i)

\* s.replace(c, '') for a one-character c
RECURSIVE remove_char(_, _)
remove_char(s, c) ==
    IF s = <<>> THEN <<>>
    ELSE IF Head(s) = c THEN remove_char(Tail(s), c)
    ELSE <<Head(s)>> \o remove_char(Tail(s), c)

\* s.replace(p, '') for a non-empty p
RECURSIVE replace_sub(_, _)
replace_sub(s, p) ==
    IF s = <<>> THEN <<>>
    ELSE IF OccursAt(s, p, 1) THEN replace_sub(SubSeq(s, Len(p) + 1, Len(s)), p)
    ELSE <<Head(s)>> \o replace_sub(Tail(s), p)

\* s.split(): the maximal runs of non-whitespace characters
RECURSIVE split_from(_, _)
split_from(s, cur) ==
    IF s = <<>> THEN (IF cur = <<>> THEN <<>> ELSE <<cur>>)
    ELSE IF IsSpace(Head(s))
         THEN (IF cur = <<>> THEN split_from(Tail(s), <<>>)
               ELSE <<cur>> \o split_from(Tail(s), <<>>))
    ELSE split_from(Tail(s), Append(cur, Head(s)))

split(s) == split_from(s, <<>>)

\* s.strip()
RECURSIVE lstrip(_)
lstrip(s) ==
    IF s # <<>> /\ IsSpace(Head(s)) THEN lstrip(Tail(s)) ELSE s

RECURSIVE rstrip(_)
rstrip(s) ==
    IF s # <<>> /\ IsSpace(s[Len(s)]) THEN rstrip(SubSeq(s, 1, Len(s) - 1))
    ELSE s

strip(s) == rstrip(lstrip(s))

-----------------------------------------------------------------------------
(* src/models/states.py *)

WELCOME == "welcome"
GDPR == "gdpr"
DEVICE_VERIFICATION == "device_verification"
ISSUE_ANALYSIS == "issue_analysis"
CHECK_RESOLUTION == "check_resolution"
ISSUE_REPORTED == "issue_reported"
SERVICE_SCHEDULING == "service_scheduling"
COLLECT_CUSTOMER_INFO == "collect_customer_info"
CONFIRMATION == "confirmation"
END == "end"

ConversationState ==
    {WELCOME, GDPR, DEVICE_VERIFICATION, ISSUE_ANALYSIS, CHECK_RESOLUTION,
     ISSUE_REPORTED, SERVICE_SCHEDULING, COLLECT_CUSTOMER_INFO, CONFIRMATION,
     END}

\* the table without the restart edge of END
VALID_STATE_TRANSITIONS_end_closed ==
    [s \in ConversationState |->
        CASE s = WELCOME -> {DEVICE_VERIFICATION}
          [] s = GDPR -> {DEVICE_VERIFICATION, END}
          [] s = DEVICE_VERIFICATION -> {ISSUE_ANALYSIS, GDPR}
          [] s = ISSUE_ANALYSIS -> {CHECK_RESOLUTION, ISSUE_REPORTED}
          [] s = CHECK_RESOLUTION -> {END, ISSUE_REPORTED}
          [] s = ISSUE_REPORTED -> {SERVICE_SCHEDULING, END}
          [] s = SERVICE_SCHEDULING -> {COLLECT_CUSTOMER_INFO, END}
          [] s = COLLECT_CUSTOMER_INFO -> {CONFIRMATION, SERVICE_SCHEDULING}
          [] s = CONFIRMATION -> {END, SERVICE_SCHEDULING}
          [] s = END -> {}]

VALID_STATE_TRANSITIONS ==
    [s \in ConversationState |->
        CASE s = WELCOME -> {DEVICE_VERIFICATION}
          [] s = GDPR -> {DEVICE_VERIFICATION, END}
          [] s = DEVICE_VERIFICATION -> {ISSUE_ANALYSIS, GDPR}
          [] s = ISSUE_ANALYSIS -> {CHECK_RESOLUTION, ISSUE_REPORTED}
          [] s = CHECK_RESOLUTION -> {END, ISSUE_REPORTED}
          [] s = ISSUE_REPORTED -> {SERVICE_SCHEDULING, END}
          [] s = SERVICE_SCHEDULING -> {COLLECT_CUSTOMER_INFO, END}
          [] s = COLLECT_CUSTOMER_INFO -> {CONFIRMATION, SERVICE_SCHEDULING}
          [] s = CONFIRMATION -> {END, SERVICE_SCHEDULING}
          [] s = END -> {WELCOME}]

\* VALID_STATE_TRANSITIONS.get(current_state, set())
Outgoing(s) ==
    IF s \in DOMAIN VALID_STATE_TRANSITIONS THEN VALID_STATE_TRANSITIONS[s]
    ELSE {}

\* ConversationContext(): the dataclass defaults.  Attributes that the
\* handlers add later (attempts, additional_info, service_event) are fields
\* that are absent from the record until they are assigned.
ConversationContext ==
    [current_state |-> WELCOME,
     state_history |-> <<>>,
     verified_device |-> None,
     customer_info |-> <<>>,
     issue_description |-> <<>>,
     gdpr_consent |-> FALSE,
     data_collection_step |-> "name"]

hasattr(obj, name) == name \in DOMAIN obj

\* obj.name = value, also for an attribute the object does not have yet
setattr(obj, name, value) ==
    [f \in (DOMAIN obj) \cup {name} |-> IF f = name THEN value ELSE obj[f]]

\* a setter that forgets the history
current_state_setter_no_history(ctx, new_state) ==
    IF new_state # ctx.current_state
    THEN [ctx EXCEPT !.current_state = new_state]
    ELSE ctx

\* a setter that writes the new state into the history
current_state_setter_records_new(ctx, new_state) ==
    IF new_state # ctx.current_state
    THEN [ctx EXCEPT !.state_history = Append(@, new_state),
                     !.current_state = new_state]
    ELSE ctx

\* the setter of the property ConversationContext.current_state
current_state_setter(ctx, new_state) ==
    IF new_state # ctx.current_state
    THEN [ctx EXCEPT !.state_history = Append(@, ctx.current_state),
                     !.current_state = new_state]
    ELSE ctx

\* a set_state that refuses every request
set_state_refusing(ctx, new_state) == [ctx |-> ctx, ret |-> FALSE]

\* a set_state that does not consult the table
set_state_unchecked(ctx, new_state) ==
    [ctx |-> current_state_setter(ctx, new_state), ret |-> TRUE]

\* set_state(new_state): the context after the call and the returned bool
set_state(ctx, new_state) ==
    IF new_state \in Outgoing(ctx.current_state)
    THEN [ctx |-> current_state_setter(ctx, new_state), ret |-> TRUE]
    ELSE [ctx |-> ctx, ret |-> FALSE]

SetStateCall(new_state, ret) ==
    [called |-> TRUE, new_state |-> new_state, ret |-> ret]

-----------------------------------------------------------------------------
(* datetime values: [ord |-> proleptic Gregorian ordinal of the date,       *)
(* hour |-> 0..23, minute |-> 0..59]                                        *)

DAYS_BEFORE_MONTH == <<0, 31, 59, 90, 120, 151, 181, 212, 243, 273, 304, 334>>

DAYS_IN_MONTH == <<31, 28, 31, 30, 31, 30, 31, 31, 30, 31, 30, 31>>

\* date.fromordinal: the (year, month, day) of an ordinal
ord2ymd(ordinal) ==
    LET n0 == ordinal - 1
        n400 == n0 \div 146097
        r400 == n0 % 146097
        n100 == r400 \div 36524
        r100 == r400 % 36524
        n4 == r100 \div 1461
        r4 == r100 % 1461
        n1 == r4 \div 365
        n == r4 % 365
        y == n400 * 400 + 1 + n100 * 100 + n4 * 4 + n1
        leapyear == n1 = 3 /\ (n4 # 24 \/ n100 = 3)
        m0 == (n + 50) \div 32
        p0 == DAYS_BEFORE_MONTH[m0] + (IF m0 > 2 /\ leapyear THEN 1 ELSE 0)
        m == IF p0 > n THEN m0 - 1 ELSE m0
        p == IF p0 > n
             THEN p0 - (DAYS_IN_MONTH[m] + (IF m = 2 /\ leapyear THEN 1 ELSE 0))
             ELSE p0
    IN  IF n1 = 4 \/ n100 = 4
        THEN [year |-> y - 1, month |-> 12, day |-> 31]
        ELSE [year |-> y, month |-> m, day |-> n - p + 1]

year(dt) == ord2ymd(dt.ord).year
month(dt) == ord2ymd(dt.ord).month
day(dt) == ord2ymd(dt.ord).day

\* datetime.weekday(): 0 = Monday ... 6 = Sunday
weekday(ordinal) == (ordinal + 6) % 7

\* Europe/Warsaw in 2024: UTC+2 from 31.03 01:00 UTC to 27.10 01:00 UTC,
\* UTC+1 otherwise; instants are counted in hours since ordinal 0, 00:00 UTC
DstStartUtc == 738976 * 24 + 1
DstEndUtc == 739186 * 24 + 1

WarsawOffset(utc_hours) ==
    IF DstStartUtc <= utc_hours /\ utc_hours < DstEndUtc THEN 2 ELSE 1

\* offset, in hours, written in an ISO date-time string
TzOffset(tz) ==
    CASE tz = "Z" -> 0
      [] tz = "+01:00" -> 1
      [] tz = "+02:00" -> 2
      [] OTHER -> 0

\* get_occupied_slots, lines 571-577: parse(date_str); a naive value is taken
\* as UTC; the result is converted to Europe/Warsaw
to_warsaw(parsed) ==
    LET utc_hours == parsed.ord * 24 + parsed.hour - TzOffset(parsed.tz)
        local_hours == utc_hours + WarsawOffset(utc_hours)
    IN  [ord |-> local_hours \div 24, hour |-> local_hours % 24,
         minute |-> parsed.minute]

\* a date_time field that dateutil cannot parse
Unparsable == [unparsable |-> TRUE]

\* get_occupied_slots when calendar_table.get_all() returns `records`
RECURSIVE occupied_of(_)
occupied_of(records) ==
    IF records = <<>> THEN <<>>
    ELSE LET date_str == Head(records).date_time
         IN  IF date_str = None \/ date_str = Unparsable
             THEN occupied_of(Tail(records))
             ELSE <<to_warsaw(date_str)>> \o occupied_of(Tail(records))

\* get_occupied_slots: fetch_ok = FALSE when reading the table raises
get_occupied_slots(table, fetch_ok) ==
    IF fetch_ok THEN occupied_of(table) ELSE <<>>

\* a comparison that goes down to the minute
is_slot_occupied_to_the_minute(slot_time, occupied_slots) ==
    \E i \in 1..Len(occupied_slots) :
        /\ year(slot_time) = year(occupied_slots[i])
        /\ month(slot_time) = month(occupied_slots[i])
        /\ day(slot_time) = day(occupied_slots[i])
        /\ slot_time.hour = occupied_slots[i].hour
        /\ slot_time.minute = occupied_slots[i].minute

is_slot_occupied(slot_time, occupied_slots) ==
    \E i \in 1..Len(occupied_slots) :
        /\ year(slot_time) = year(occupied_slots[i])
        /\ month(slot_time) = month(occupied_slots[i])
        /\ day(slot_time) = day(occupied_slots[i])
        /\ slot_time.hour = occupied_slots[i].hour

DaysAhead == 10
FirstHour == 8
LastHourExclusive == 18

HoursPerDay == LastHourExclusive - FirstHour

\* the nested loops of lines 481-489: the k-th candidate in iteration order
Candidate(start_ord, k) ==
    [ord |-> start_ord + ((k - 1) \div HoursPerDay),
     hour |-> FirstHour + ((k - 1) % HoursPerDay),
     minute |-> 0]

\* a generation whose first day is the generation date itself
generate_slots_from_today(now_ord, occupied_slots) ==
    LET start_ord == now_ord
        candidates == [k \in 1..(DaysAhead * HoursPerDay) |->
                          Candidate(start_ord, k)]
    IN  SelectSeq(candidates,
                  LAMBDA slot_time :
                      /\ weekday(slot_time.ord) < 5
                      /\ ~is_slot_occupied(slot_time, occupied_slots))

\* lines 473-498: the list available_slots built by the generation
generate_slots(now_ord, occupied_slots) ==
    LET start_ord == now_ord + 1
        candidates == [k \in 1..(DaysAhead * HoursPerDay) |->
                          Candidate(start_ord, k)]
    IN  SelectSeq(candidates,
                  LAMBDA slot_time :
                      /\ weekday(slot_time.ord) < 5
                      /\ ~is_slot_occupied(slot_time, occupied_slots))


-----------------------------------------------------------------------------
(* The user messages explored.  Letters with diacritics are written as one *)
(* character each: "a~" "c~" "e~" "l~" "n~" "o~" "s~" "z~" "z^".            *)

M_tak == <<"t","a","k">>
M_TAK == <<"T","A","K">>
M_T == <<"T">>
M_Yes == <<"Y","e","s">>
M_y == <<"y">>
M_nie == <<"n","i","e">>
M_No == <<"N","o">>
M_n == <<"n">>
M_sn_a == <<"S","N",":"," ","1","2","3">>
M_sn_b == <<"s","n"," ","4","5","6">>
M_sn_unknown == <<"S","n",":","9","9","9">>
M_serial_only == <<"1","2","3">>
M_inne == <<"i","n","n","e">>
M_1 == <<"1">>
M_2 == <<"2">>
M_0 == <<"0">>
M_99 == <<"9","9">>
M_phone9 == <<"1","2","3","4","5","6","7","8","9">>
M_phone8 == <<"1","2","3"," ","4","5","6","-","7","8">>
M_letters9 == <<"a","b","c","d","e","f","g","h","i">>
M_email == <<"a","@","b",".","p","l">>
M_nadal == <<"n","a","d","a","l">>
M_obraz == <<"o","b","r","a","z"," ","j","e","s","t"," ","r","o","z","m","y","t","y">>
M_restart == <<"r","e","s","t","a","r","t">>
M_long_restart == <<"p","o","g","o","d","a"," ","i"," ","r","e","s","t","a","r","t"," ","o","d"," ","w","c","z","o","r","a","j"," ","w"," ","k","l","i","n","i","c","e">>
M_long_offtopic == <<"p","o","g","o","d","a"," ","d","z","i","s","i","a","j"," ","w"," ","w","a","r","s","z","a","w","i","e"," ","l","a","d","n","a"," ","b","a","r","d","z","o">>
M_name == <<"J","a","n"," ","N","o","w","a","k">>
M_address == <<"L","i","p","o","w","a"," ","5">>
M_sn_empty == <<"S","N",":">>

Messages ==
    {M_tak, M_TAK, M_T, M_Yes, M_y,
     M_nie, M_No, M_n, M_sn_a, M_sn_b,
     M_sn_unknown, M_serial_only, M_inne, M_1, M_2,
     M_0, M_99, M_phone9, M_phone8, M_letters9,
     M_email, M_nadal, M_obraz, M_restart, M_long_restart,
     M_long_offtopic, M_name, M_address, M_sn_empty}

-----------------------------------------------------------------------------
(* src/utils/ai.py: AIHelper.is_on_topic *)

device_keywords ==
    {<<"u","r","z","a~","d","z","e","n","i","e">>,
     <<"u","r","z","a~","d","z","e","n","i","a">>,
     <<"s","p","r","z","e~","t">>,
     <<"a","p","a","r","a","t">>,
     <<"z","d","j","e~","c","i","a">>,
     <<"z","d","j","e~","c","i","e">>,
     <<"o","b","r","a","z">>,
     <<"o","b","r","a","z","y">>,
     <<"j","a","k","o","s~","c~">>,
     <<"w","y","r","a","z~","n","e">>,
     <<"n","i","e","w","y","r","a","z~","n","e">>,
     <<"r","o","z","m","y","t","e">>,
     <<"o","s","t","r","o","s~","c~">>,
     <<"k","o","n","t","r","a","s","t">>,
     <<"j","a","s","n","o","s~","c~">>,
     <<"w","l~","a~","c","z","a">>,
     <<"w","y","l~","a~","c","z","a">>,
     <<"r","e","s","t","a","r","t">>,
     <<"z","a","w","i","e","s","z","a">>,
     <<"p","r","o","b","l","e","m">>,
     <<"u","s","t","e","r","k","a">>,
     <<"a","w","a","r","i","a">>,
     <<"n","a","p","r","a","w","a">>,
     <<"s","e","r","w","i","s">>,
     <<"g","w","a","r","a","n","c","j","a">>,
     <<"e","k","r","a","n">>,
     <<"w","y","s~","w","i","e","t","l","a","c","z">>,
     <<"b","a","t","e","r","i","a">>,
     <<"z","a","s","i","l","a","n","i","e">>,
     <<"k","a","b","e","l">>,
     <<"g","l~","o","w","i","c","a">>,
     <<"s","o","n","d","a">>,
     <<"p","r","z","y","c","i","s","k">>,
     <<"m","e","n","u">>,
     <<"u","s","t","a","w","i","e","n","i","a">>,
     <<"k","a","l","i","b","r","a","c","j","a">>,
     <<"d","i","a","g","n","o","s","t","y","k","a">>,
     <<"b","l~","a~","d">>,
     <<"e","r","r","o","r">>,
     <<"v","e","t">>,
     <<"e","y","e">>,
     <<"v","e","t","-","e","y","e">>,
     <<"w","e","t","e","r","y","n","a","r","y","j","n","e">>,
     <<"w","e","t","e","r","y","n","a","r","y","j","n","y">>,
     <<"m","e","d","y","c","z","n","e">>,
     <<"m","e","d","y","c","z","n","y">>,
     <<"w","o","l","n","o">>,
     <<"c","h","o","d","z","i">>,
     <<"d","z","i","a","l~","a">>,
     <<"n","i","e"," ","d","z","i","a","l~","a">>,
     <<"z~","l","e">>,
     <<"p","o","w","o","l","i">>,
     <<"s","z","y","b","k","o">>,
     <<"z","a","w","i","e","s","i","l~">>,
     <<"z","a","c","i","n","a">>,
     <<"z","a","c","i","e~","l~","o">>,
     <<"b","l~","e~","d","y">>,
     <<"p","s","u","j","e">>,
     <<"z","e","p","s","u","l~","o">>,
     <<"u","s","z","k","o","d","z","o","n","e">>,
     <<"u","s","z","k","o","d","z","o","n","y">>,
     <<"p","o","p","s","u","t","y">>,
     <<"p","o","p","s","u","t","e">>,
     <<"s","l~","a","b","o">>,
     <<"k","i","e","p","s","k","o">>,
     <<"w","a","d","l","i","w","y">>,
     <<"w","a","d","l","i","w","i","e">>,
     <<"a","w","a","r","y","j","n","y">>,
     <<"n","i","e">>,
     <<"t","a","k">>,
     <<"p","o","m","o","c","y">>,
     <<"p","o","m","o","c">>}

off_topic_keywords ==
    {<<"t","r","u","m","p">>,
     <<"b","i","d","e","n">>,
     <<"p","o","l","i","t","y","k","a">>,
     <<"w","y","b","o","r","y">>,
     <<"p","a","r","t","i","a">>,
     <<"p","r","e","z","y","d","e","n","t">>,
     <<"p","r","e","m","i","e","r">>,
     <<"r","z","a~","d">>,
     <<"s","e","j","m">>,
     <<"s","e","n","a","t">>,
     <<"u","s","t","a","w","a">>,
     <<"p","r","a","w","o">>,
     <<"p","r","z","e","p","i","s","y">>,
     <<"k","o","n","s","t","y","t","u","c","j","a">>,
     <<"c","e","l","e","b","r","y","t","a">>,
     <<"g","w","i","a","z","d","a">>,
     <<"a","k","t","o","r">>,
     <<"a","k","t","o","r","k","a">>,
     <<"p","i","o","s","e","n","k","a","r","z">>,
     <<"p","i","o","s","e","n","k","a","r","k","a">>,
     <<"s","p","o","r","t">>,
     <<"m","e","c","z">>,
     <<"p","i","l~","k","a">>,
     <<"l","i","g","a">>,
     <<"m","i","s","t","r","z","o","s","t","w","a">>,
     <<"o","l","i","m","p","i","a","d","a">>,
     <<"p","o","g","o","d","a">>,
     <<"k","l","i","m","a","t">>,
     <<"t","e","m","p","e","r","a","t","u","r","a">>,
     <<"d","e","s","z","c","z">>,
     <<"s~","n","i","e","g">>,
     <<"b","u","r","z","a">>}

\* AIHelper.is_on_topic(query)["is_on_topic"]
is_on_topic(query) ==
    IF Len(strip(query)) <= 30 THEN TRUE
    ELSE IF \E keyword \in device_keywords : contains(lower(query), lower(keyword))
    THEN TRUE
    ELSE IF Len(strip(query)) <= 5 THEN TRUE
    ELSE IF \E keyword \in off_topic_keywords : contains(lower(query), lower(keyword))
    THEN FALSE
    ELSE TRUE

-----------------------------------------------------------------------------
(* src/utils/airtable.py: the table 'Devices' and AirtableClient.get_device_info *)

Devices ==
    <<[id |-> "recA",
       fields |-> [serial_number |-> <<"1","2","3">>,
                   model |-> <<"V","1">>,
                   warranty_status |-> "active"]],
      [id |-> "recB",
       fields |-> [serial_number |-> <<"4","5","6">>,
                   model |-> <<"V","2">>]]>>

\* \w of the regular expression
IsWordChar(c) ==
    /\ ~IsSpace(c)
    /\ c \notin {":", ".", "-", "@", ",", "*", "\n"}

\* the longest run of word characters of s that starts at position k
RECURSIVE word_run(_, _)
word_run(s, k) ==
    IF k <= Len(s) /\ IsWordChar(s[k]) THEN <<s[k]>> \o word_run(s, k + 1)
    ELSE <<>>

\* first position >= k of s that is not whitespace
RECURSIVE skip_space(_, _)
skip_space(s, k) ==
    IF k <= Len(s) /\ IsSpace(s[k]) THEN skip_space(s, k + 1) ELSE k

\* the regular expression SN[:.]?\s*(\w+), ignoring case, tried at position i:
\* group 1, or <<>> when it does not match there
serial_match_at(s, i) ==
    IF ~(i + 1 <= Len(s) /\ LowerChar(s[i]) = "s" /\ LowerChar(s[i + 1]) = "n")
    THEN <<>>
    ELSE LET j == IF i + 2 <= Len(s) /\ s[i + 2] \in {":", "."} THEN i + 3
                  ELSE i + 2
         IN  word_run(s, skip_space(s, j))

\* lines 41-47: the serial number searched for
clean_serial(serial_input) ==
    LET hits == {i \in 1..Len(serial_input) :
                    serial_match_at(serial_input, i) # <<>>}
    IN  IF hits # {}
        THEN serial_match_at(serial_input,
                             CHOOSE i \in hits : \A k \in hits : i <= k)
        ELSE strip(replace_sub(serial_input, <<"S","N",":">>))

\* get_device_info(serial_input); search_ok = FALSE when the search raises
get_device_info(serial_input, search_ok) ==
    LET found == SelectSeq(Devices,
                     LAMBDA d : d.fields.serial_number = clean_serial(serial_input))
    IN  IF ~search_ok
        THEN [status |-> "error", message |-> "verification_failed"]
        ELSE IF found # <<>>
        THEN [status |-> "success", device |-> found[1]]
        ELSE [status |-> "error", message |-> "not_found"]

\* 'Nieznany model'
UNKNOWN_MODEL == <<"N","i","e","z","n","a","n","y"," ","m","o","d","e","l">>

\* dict.get(key, default)
dict_get(d, key, default) == IF key \in DOMAIN d THEN d[key] ELSE default

-----------------------------------------------------------------------------
(* src/app.py: the handlers.  A handler is a function of the state and the *)
(* message; its value names the state after the call.                      *)

\* a comparison without lower()
is_affirmative_case_sensitive(message) ==
    message \in {<<"t","a","k">>, <<"t">>, <<"y","e","s">>, <<"y">>}

\* a comparison with 'tak' alone
is_affirmative_only_tak(message) == lower(message) = <<"t","a","k">>

\* message.lower() in ['tak', 't', 'yes', 'y']
is_affirmative(message) ==
    lower(message) \in {<<"t","a","k">>, <<"t">>, <<"y","e","s">>, <<"y">>}

\* message.lower() in ['nie', 'n', 'no']
is_negative(message) ==
    lower(message) \in {<<"n","i","e">>, <<"n">>, <<"n","o">>}

\* what a handler leaves as it is
Unchanged ==
    [context |-> context,
     session |-> session,
     calendar_table |-> calendar_table,
     generated |-> generated,
     restarts |-> restarts,
     set_state_call |-> NoCall,
     calls |-> {},
     response |-> Reply("none")]

\* a welcome handler that moves on without recording the consent
handle_welcome_without_consent(message) ==
    IF is_affirmative(message)
    THEN LET r == set_state(context, DEVICE_VERIFICATION)
         IN  [Unchanged EXCEPT
                 !.context = r.ctx,
                 !.set_state_call = SetStateCall(DEVICE_VERIFICATION, r.ret),
                 !.response = IF r.ret THEN Reply("serial_request")
                              ELSE Reply("consent_error_retry")]
    ELSE IF is_negative(message)
    THEN [Unchanged EXCEPT !.response = Reply("consent_declined")]
    ELSE IF hasattr(context, "gdpr_consent") /\ context.gdpr_consent
    THEN [Unchanged EXCEPT !.response = Reply("serial_reprompt")]
    ELSE [Unchanged EXCEPT !.response = Reply("consent_reprompt")]

handle_welcome(message) ==
    IF is_affirmative(message)
    THEN LET consented == [context EXCEPT !.gdpr_consent = TRUE]
             r == set_state(consented, DEVICE_VERIFICATION)
         IN  [Unchanged EXCEPT
                 !.context = r.ctx,
                 !.set_state_call = SetStateCall(DEVICE_VERIFICATION, r.ret),
                 !.response = IF r.ret THEN Reply("serial_request")
                              ELSE Reply("consent_error_retry")]
    ELSE IF is_negative(message)
    THEN [Unchanged EXCEPT !.response = Reply("consent_declined")]
    ELSE IF hasattr(context, "gdpr_consent") /\ context.gdpr_consent
    THEN [Unchanged EXCEPT !.response = Reply("serial_reprompt")]
    ELSE [Unchanged EXCEPT !.response = Reply("consent_reprompt")]

\* a prefix test that only turns away the empty message
lacks_serial_prefix_only_empty(message) ==
    message = <<>>

\* line 251: the message does not look like a serial number
lacks_serial_prefix(message) ==
    /\ ~startswith(lower(message), <<"s","n",":">>)
    /\ ~startswith(lower(message), <<"s","n"," ">>)

\* a handler that sends a text without a serial number back to the consent
handle_device_verification_back_to_consent(message, search_ok) ==
    LET r == set_state(context, GDPR)
    IN  [Unchanged EXCEPT
            !.context = r.ctx,
            !.set_state_call = SetStateCall(GDPR, r.ret),
            !.response = Reply("serial_reprompt")]

handle_device_verification(message, search_ok) ==
    IF lacks_serial_prefix(message)
    THEN [Unchanged EXCEPT !.response = Reply("serial_reprompt")]
    ELSE LET result == get_device_info(message, search_ok)
         IN  IF result.status = "success"
             THEN LET device == result.device
                      stored == [context EXCEPT !.verified_device = device]
                      r == set_state(stored, ISSUE_ANALYSIS)
                  IN  [Unchanged EXCEPT
                          !.session.device_info = device,
                          !.session.current_model =
                              dict_get(device.fields, "model", UNKNOWN_MODEL),
                          !.session.first_verified =
                              IF @ = None
                              THEN dict_get(device.fields, "model", UNKNOWN_MODEL)
                              ELSE @,
                          !.context = r.ctx,
                          !.set_state_call = SetStateCall(ISSUE_ANALYSIS, r.ret),
                          !.response = Reply("device_verified")]
             ELSE [Unchanged EXCEPT
                     !.response = ReplyFor("device_not_found", result.message)]


\* a check that asks for few words or few characters, either alone
too_short_either(message) ==
    LET words == SelectSeq(split(message), LAMBDA w : Len(w) > 1)
    IN  Len(words) < 3 \/ Len(message) < 20

\* lines 299-300: the description is too short to analyse
too_short(message) ==
    LET words == SelectSeq(split(message), LAMBDA w : Len(w) > 1)
    IN  Len(words) < 3 /\ Len(message) < 20

\* 'unknown', the default of line 289
UNKNOWN == <<"u","n","k","n","o","w","n">>

\* a phrasing call whose failure is not caught
analyze_problem_with_knowledge_uncaught(ai_ok) ==
    IF ai_ok THEN [raised |-> FALSE, text |-> "analysis_ai"]
    ELSE [raised |-> TRUE]

\* AIHelper.analyze_problem_with_knowledge, ai.py lines 127-211: the text of
\* the language model, or, when the call to it fails (no client, an error
\* of the API, no content), the static text of the except clause
analyze_problem_with_knowledge(ai_ok) ==
    [raised |-> FALSE,
     text |-> IF ai_ok THEN "analysis_ai" ELSE "analysis_fallback"]

\* lines 311-334, for a description that passed the two checks
analysed(model, message, ai_ok, analysis) ==
    IF analysis.raised
    THEN \* the except clause of line 332
         [Unchanged EXCEPT
             !.calls = {CalledFor("find_solution", TRUE, model),
                        Called("analyze_problem_with_knowledge", ai_ok)},
             !.response = Reply("analysis_error")]
    ELSE LET described == [context EXCEPT !.issue_description = message]
             r == set_state(described, CHECK_RESOLUTION)
         IN  [Unchanged EXCEPT
                 !.context = r.ctx,
                 !.set_state_call = SetStateCall(CHECK_RESOLUTION, r.ret),
                 !.calls = {CalledFor("find_solution", TRUE, model),
                            Called("analyze_problem_with_knowledge", ai_ok)},
                 !.response = IF ~r.ret THEN Reply("analysis_error_retry")
                              ELSE Reply(analysis.text)]

handle_issue_analysis(message, ai_ok) ==
    IF context.verified_device = None
    THEN \* None has no get(): the except clause of line 332
         [Unchanged EXCEPT !.response = Reply("analysis_error")]
    ELSE LET model == dict_get(context.verified_device, "model", UNKNOWN)
         IN  IF ~is_on_topic(message)
             THEN [Unchanged EXCEPT !.response = Reply("off_topic")]
             ELSE IF too_short(message)
             THEN [Unchanged EXCEPT !.response = Reply("more_details")]
             ELSE analysed(model, message, ai_ok,
                           analyze_problem_with_knowledge(ai_ok))

\* line 344: phrases that mean the problem is still there
negative_phrases ==
    {<<"n","a","d","a","l">>, <<"w","c","i","a~","z^">>, <<"d","a","l","e","j">>, <<"n","i","e"," ","p","o","m","o","g","l~","o">>, <<"n","i","e"," ","d","z","i","a","l~","a">>}

\* a handler that reads every text as saying the problem is still there
has_negative_phrase_in_any_text(message) == message # <<>>

has_negative_phrase(message) ==
    \E phrase \in negative_phrases : contains(lower(message), phrase)

\* the category chosen on the first failed attempt, lines 359-394
category_first(issue_description) ==
    IF \E w \in {<<"z","d","j","e~","c","i","a">>, <<"o","b","r","a","z">>, <<"j","a","k","o","s~","c~"," ","o","b","r","a","z","u">>} :
           contains(issue_description, w)
    THEN "image"
    ELSE IF \E w \in {<<"r","e","s","t","a","r","t">>, <<"w","y","l~","a~","c","z","a">>, <<"z","a","w","i","e","s","z","a">>} :
           contains(issue_description, w)
    THEN "restart"
    ELSE IF \E w \in {<<"g","o","r","a~","c","e">>, <<"t","e","m","p","e","r","a","t","u","r","a">>, <<"p","r","z","e","g","r","z","e","w","a">>} :
           contains(issue_description, w)
    THEN "overheating"
    ELSE IF \E w \in {<<"n","i","e"," ","w","l~","a~","c","z","a">>, <<"n","i","e"," ","u","r","u","c","h","a","m","i","a">>} :
           contains(issue_description, w)
    THEN "power"
    ELSE "generic"

\* the category chosen on the second failed attempt, lines 397-418, and for
\* supplementary information, lines 434-452
category_second(issue_description) ==
    IF \E w \in {<<"z","d","j","e~","c","i","a">>, <<"o","b","r","a","z">>, <<"j","a","k","o","s~","c~"," ","o","b","r","a","z","u">>} :
           contains(issue_description, w)
    THEN "image"
    ELSE IF \E w \in {<<"r","e","s","t","a","r","t">>, <<"w","y","l~","a~","c","z","a">>, <<"z","a","w","i","e","s","z","a">>} :
           contains(issue_description, w)
    THEN "restart"
    ELSE "generic"

NEWLINE == <<"\n">>

\* lines 347 and 429: the value assigned to context.additional_info
appended_info(ctx, message) ==
    IF hasattr(ctx, "additional_info")
    THEN ctx.additional_info \o NEWLINE \o message
    ELSE message

\* a counter that is set, never incremented
next_attempts_stuck(ctx) ==
    IF hasattr(ctx, "attempts") THEN ctx.attempts ELSE 1

\* line 350: the value assigned to context.attempts
next_attempts(ctx) ==
    IF hasattr(ctx, "attempts") THEN ctx.attempts + 1 ELSE 1

\* attempts at which the diagnostic dialogue goes on, line 356
MaxDiagnosticAttempts == 2

handle_check_resolution(message) ==
    IF is_affirmative(message)
    THEN LET r == set_state(context, END)
         IN  [Unchanged EXCEPT
                 !.context = r.ctx,
                 !.set_state_call = SetStateCall(END, r.ret),
                 !.response = Reply("resolved")]
    ELSE IF is_negative(message) \/ has_negative_phrase(message)
    THEN LET c1 == IF ~is_negative(message)
                   THEN setattr(context, "additional_info",
                                appended_info(context, message))
                   ELSE context
             c2 == setattr(c1, "attempts", next_attempts(c1))
             issue_description ==
                 IF hasattr(c2, "issue_description")
                 THEN lower(c2.issue_description) ELSE <<>>
         IN  IF c2.attempts <= MaxDiagnosticAttempts
             THEN [Unchanged EXCEPT
                     !.context = c2,
                     !.response =
                         IF c2.attempts = 1
                         THEN ReplyFor("questions", category_first(issue_description))
                         ELSE ReplyFor("remedy", category_second(issue_description))]
             ELSE LET r == set_state(c2, ISSUE_REPORTED)
                  IN  [Unchanged EXCEPT
                          !.context = r.ctx,
                          !.set_state_call = SetStateCall(ISSUE_REPORTED, r.ret),
                          !.response = Reply("offer_service_visit")]
    ELSE LET c1 == setattr(context, "additional_info",
                           appended_info(context, message))
             issue_description ==
                 IF hasattr(c1, "issue_description")
                 THEN lower(c1.issue_description) ELSE <<>>
         IN  [Unchanged EXCEPT
                 !.context = c1,
                 !.response = ReplyFor("refined", category_second(issue_description))]

handle_issue_reported(message) ==
    IF is_affirmative(message)
    THEN LET r == set_state(context, SERVICE_SCHEDULING)
         IN  [Unchanged EXCEPT
                 !.context = r.ctx,
                 !.set_state_call = SetStateCall(SERVICE_SCHEDULING, r.ret),
                 !.response = Reply("ask_show_slots")]
    ELSE IF is_negative(message)
    THEN LET r == set_state(context, END)
         IN  [Unchanged EXCEPT
                 !.context = r.ctx,
                 !.set_state_call = SetStateCall(END, r.ret),
                 !.response = Reply("no_visit")]
    ELSE [Unchanged EXCEPT !.response = Reply("visit_reprompt")]


\* int(message): [ok |-> FALSE] stands for ValueError
RECURSIVE digits_value(_, _)
digits_value(s, acc) ==
    IF s = <<>> THEN acc
    ELSE digits_value(Tail(s),
                      10 * acc + (CHOOSE d \in 0..9 :
                                     <<"0","1","2","3","4","5","6","7","8","9">>[d + 1]
                                         = Head(s)))

\* a reading that takes a text without a number for the number 1
int_or_first(message) ==
    LET body == strip(message)
    IN  IF body # <<>> /\ \A i \in 1..Len(body) : body[i] \in Digits
        THEN [ok |-> TRUE, value |-> digits_value(body, 0)]
        ELSE [ok |-> TRUE, value |-> 1]

int(message) ==
    LET stripped == strip(message)
        signed == stripped # <<>> /\ Head(stripped) \in {"+", "-"}
        body == IF signed THEN Tail(stripped) ELSE stripped
    IN  IF body # <<>> /\ \A i \in 1..Len(body) : body[i] \in Digits
        THEN [ok |-> TRUE,
              value |-> IF signed /\ Head(stripped) = "-"
                        THEN 0 - digits_value(body, 0)
                        ELSE digits_value(body, 0)]
        ELSE [ok |-> FALSE]

\* the element taken without the shift to the 1-based number
slot_at_zero_based(available_slots, slot_number) ==
    available_slots[slot_number + 1]

\* line 534: the element of the offered list for a 1-based slot number
slot_at(available_slots, slot_number) == available_slots[slot_number]

handle_service_scheduling(message, fetch_ok) ==
    IF is_affirmative(message)
    THEN IF session.showing_slots
         THEN [Unchanged EXCEPT !.response = Reply("pick_from_list_above")]
         ELSE LET occupied_slots == get_occupied_slots(calendar_table, fetch_ok)
                  available_slots == generate_slots(today, occupied_slots)
              IN  IF available_slots = <<>>
                  THEN [Unchanged EXCEPT
                          !.generated = available_slots,
                          !.calls = {Called("get_occupied_slots", fetch_ok)},
                          !.response = Reply("no_slots")]
                  ELSE [Unchanged EXCEPT
                          !.generated = available_slots,
                          !.calls = {Called("get_occupied_slots", fetch_ok)},
                          !.session.available_slots = available_slots,
                          !.session.showing_slots = TRUE,
                          !.response = Reply("slot_list")]
    ELSE IF is_negative(message)
    THEN [Unchanged EXCEPT !.response = Reply("contact_alternative")]
    ELSE IF session.showing_slots
    THEN IF lower(message) = <<"i","n","n","e">>
         THEN [Unchanged EXCEPT !.response = Reply("call_service")]
         ELSE LET slot_number == int(message)
              IN  IF ~slot_number.ok
                  THEN [Unchanged EXCEPT !.response = Reply("number_prompt")]
                  ELSE IF 1 <= slot_number.value
                          /\ slot_number.value <= Len(session.available_slots)
                  THEN LET r == set_state(context, COLLECT_CUSTOMER_INFO)
                       IN  [Unchanged EXCEPT
                               !.session.selected_slot =
                                   slot_at(session.available_slots,
                                           slot_number.value),
                               !.context = r.ctx,
                               !.set_state_call =
                                   SetStateCall(COLLECT_CUSTOMER_INFO, r.ret),
                               !.response = Reply("slot_chosen")]
                  ELSE [Unchanged EXCEPT !.response = Reply("range_prompt")]
    ELSE [Unchanged EXCEPT !.response = Reply("ask_show_slots")]

\* line 646: the basic validation of the phone number
MinPhoneLength == 9

phone_valid(message) ==
    Len(remove_char(remove_char(message, " "), "-")) >= MinPhoneLength

\* line 655: the basic validation of the e-mail address
email_valid(message) ==
    contains(message, <<"@">>) /\ contains(message, <<".">>)

\* a handler that asks for the address alone
handle_collect_customer_info_address_only(message) ==
    LET addressed == [context EXCEPT
                         !.customer_info = setattr(@, "address", message),
                         !.data_collection_step = "address"]
        r == set_state(addressed, CONFIRMATION)
    IN  [Unchanged EXCEPT
            !.session.client_address = message,
            !.context = r.ctx,
            !.set_state_call = SetStateCall(CONFIRMATION, r.ret),
            !.response = Reply("confirm_data")]

\* a handler that takes an e-mail address at whatever step it arrives
handle_collect_customer_info_any_order(message) ==
    IF email_valid(message)
    THEN [Unchanged EXCEPT
            !.session.client_email = message,
            !.context.customer_info = setattr(@, "email", message),
            !.context.data_collection_step = "address",
            !.response = Reply("ask_address")]
    ELSE [Unchanged EXCEPT !.response = Reply("invalid_email")]

handle_collect_customer_info(message) ==
    LET data_step == context.data_collection_step
    IN  IF data_step = "name"
        THEN [Unchanged EXCEPT
                !.session.client_name = message,
                !.context.customer_info = setattr(@, "name", message),
                !.context.data_collection_step = "phone",
                !.response = Reply("ask_phone")]
        ELSE IF data_step = "phone"
        THEN IF phone_valid(message)
             THEN [Unchanged EXCEPT
                     !.session.client_phone = message,
                     !.context.customer_info = setattr(@, "phone", message),
                     !.context.data_collection_step = "email",
                     !.response = Reply("ask_email")]
             ELSE [Unchanged EXCEPT !.response = Reply("invalid_phone")]
        ELSE IF data_step = "email"
        THEN IF email_valid(message)
             THEN [Unchanged EXCEPT
                     !.session.client_email = message,
                     !.context.customer_info = setattr(@, "email", message),
                     !.context.data_collection_step = "address",
                     !.response = Reply("ask_address")]
             ELSE [Unchanged EXCEPT !.response = Reply("invalid_email")]
        ELSE IF data_step = "address"
        THEN LET addressed == [context EXCEPT
                                  !.customer_info = setattr(@, "address", message)]
                 r == set_state(addressed, CONFIRMATION)
             IN  IF session.selected_slot = None
                 THEN \* None has no strftime(): the except clause of line 922
                      [Unchanged EXCEPT
                          !.session.client_address = message,
                          !.context = addressed,
                          !.response = Reply("main_error")]
                 ELSE [Unchanged EXCEPT
                          !.session.client_address = message,
                          !.context = r.ctx,
                          !.set_state_call = SetStateCall(CONFIRMATION, r.ret),
                          !.response = Reply("confirm_data")]
        ELSE [Unchanged EXCEPT !.response = Reply("collect_error_retry")]

\* lines 699-718: the model cut out of the first verification reply of the
\* session, "**Model:** <model>\n**Status gwarancji:** ..."
extracted_model(shown_model) ==
    <<"*", " ">> \o shown_model \o <<"\n", "*", "*">>

\* pytz localize() of a naive Europe/Warsaw wall time: the offset it gets
warsaw_localize(date_time) ==
    LET wall_hours == date_time.ord * 24 + date_time.hour
    IN  IF DstStartUtc <= wall_hours - 1 /\ wall_hours - 2 < DstEndUtc
        THEN "+02:00" ELSE "+01:00"

\* lines 738-745: the date_time field of the record of handle_confirmation
iso_local(date_time) ==
    [ord |-> date_time.ord, hour |-> date_time.hour,
     minute |-> date_time.minute, tz |-> warsaw_localize(date_time)]

\* add_service_event, lines 200-211: the date_time field of its record
iso_utc(date_time) ==
    LET utc_hours == date_time.ord * 24 + date_time.hour
                         - TzOffset(warsaw_localize(date_time))
    IN  [ord |-> utc_hours \div 24, hour |-> utc_hours % 24,
         minute |-> date_time.minute, tz |-> "Z"]

\* CalendarClient.add_service_event: the table after the call;
\* insert_ok = FALSE when the insert raises (caught at line 243)
add_service_event(table, date_time, customer_email, insert_ok) ==
    IF date_time # None /\ insert_ok
    THEN Append(table, [date_time |-> iso_utc(date_time),
                        customer_email |-> customer_email])
    ELSE table

\* a handler that closes the conversation whatever the answer is
handle_confirmation_closing(message, insert_ok, event_ok) ==
    LET r == set_state(context, END)
    IN  [Unchanged EXCEPT
            !.context = r.ctx,
            !.set_state_call = SetStateCall(END, r.ret),
            !.response = Reply("visit_scheduled")]

handle_confirmation(message, insert_ok, event_ok) ==
    IF is_affirmative(message)
    THEN LET date_time == session.selected_slot
             device_info ==
                 IF hasattr(context, "verified_device_info")
                 THEN context.verified_device_info
                 ELSE IF session.first_verified # None
                 THEN extracted_model(session.first_verified)
                 ELSE UNKNOWN_MODEL
             calendar_record ==
                 [date_time |-> IF date_time = None THEN None
                                ELSE iso_local(date_time),
                  device_model |-> device_info,
                  description |-> context.issue_description,
                  customer_address |-> session.client_address,
                  customer_phone |-> session.client_phone,
                  customer_email |-> session.client_email,
                  customer_name |-> session.client_name]
         IN  IF context.verified_device = None
             THEN \* None has no get(): the except clause of line 803
                  [Unchanged EXCEPT !.response = Reply("booking_error")]
             ELSE IF ~insert_ok
             THEN \* insert() raises: the except clause of line 803
                  [Unchanged EXCEPT
                      !.calls = {Called("insert", FALSE)},
                      !.response = Reply("booking_error")]
             ELSE LET evented == setattr(context, "service_event",
                                         [datetime |-> date_time,
                                          customer_name |-> session.client_name,
                                          created |-> date_time # None /\ event_ok])
                      r == set_state(evented, END)
                  IN  [Unchanged EXCEPT
                          !.calendar_table =
                              add_service_event(Append(@, calendar_record),
                                                date_time, session.client_email,
                                                event_ok),
                          !.context = r.ctx,
                          !.set_state_call = SetStateCall(END, r.ret),
                          !.calls = {Called("insert", TRUE),
                                     Called("add_service_event",
                                            date_time # None /\ event_ok)},
                          !.response = Reply("visit_scheduled")]
    ELSE IF is_negative(message)
    THEN LET r == set_state(context, COLLECT_CUSTOMER_INFO)
         IN  [Unchanged EXCEPT
                 !.context = r.ctx,
                 !.set_state_call = SetStateCall(COLLECT_CUSTOMER_INFO, r.ret),
                 !.response = Reply("give_correct_data")]
    ELSE [Unchanged EXCEPT !.response = Reply("confirm_reprompt")]

handle_end(message) ==
    IF is_affirmative(message)
    THEN [Unchanged EXCEPT
            !.context = ConversationContext,
            !.restarts = @ + 1,
            !.response = Reply("what_else")]
    ELSE [Unchanged EXCEPT !.response = Reply("goodbye")]

-----------------------------------------------------------------------------
(* The environment: what is in the booking store, and what the user types *)

\* a record of the table 'Calendar' with the given date_time field
Booking(ordinal, hour, minute, tz) ==
    [date_time |-> [ord |-> ordinal, hour |-> hour, minute |-> minute, tz |-> tz]]

\* tables found when a session starts on day t
InitialTables(t) ==
    {<<>>,
     <<Booking(t + 3, 8, 30, "+01:00")>>,
     <<Booking(t + 1, 7, 0, "Z"), [date_time |-> Unparsable],
       Booking(t + 9, 9, 15, "naive"), [date_time |-> None]>>,
     <<Booking(t + 10, 15, 0, "Z"), Booking(t + 4, 17, 59, "+02:00"),
       Booking(t + 11, 8, 0, "+02:00")>>}

\* st.session_state after initialize_session_state(), without the context;
\* first_verified is the model named in the first verification reply held
\* in st.session_state.messages
InitialSession ==
    [available_slots |-> <<>>,
     showing_slots |-> FALSE,
     device_info |-> None,
     selected_slot |-> None,
     client_name |-> <<>>,
     client_phone |-> <<>>,
     client_email |-> <<>>,
     client_address |-> <<>>,
     current_model |-> <<>>,
     first_verified |-> None]

\* the messages explored in a state: a step that only stores the text is
\* explored with one text, and the second registered device is brought in
\* once the session has verified a first one
InputsFor(ctx, ses) ==
    CASE ctx.current_state = WELCOME ->
             {M_tak, M_TAK, M_T, M_Yes, M_y, M_nie, M_No, M_n, M_sn_a, M_obraz}
      [] ctx.current_state = DEVICE_VERIFICATION ->
             {M_sn_a, M_sn_unknown, M_sn_empty, M_serial_only, M_tak, M_obraz}
                 \cup (IF ses.first_verified = None THEN {} ELSE {M_sn_b})
      [] ctx.current_state = ISSUE_ANALYSIS ->
             {M_obraz, M_long_offtopic, M_restart, M_nadal, M_tak}
      [] ctx.current_state = CHECK_RESOLUTION ->
             {M_tak, M_Yes, M_nie, M_No, M_nadal, M_obraz}
      [] ctx.current_state = ISSUE_REPORTED ->
             {M_tak, M_nie, M_obraz}
      [] ctx.current_state = SERVICE_SCHEDULING ->
             {M_tak, M_nie, M_inne, M_1, M_0, M_99, M_obraz}
      [] ctx.current_state = COLLECT_CUSTOMER_INFO ->
             (CASE ctx.data_collection_step = "name" -> {M_name}
                [] ctx.data_collection_step = "phone" ->
                       {M_phone9, M_phone8, M_serial_only}
                [] ctx.data_collection_step = "email" ->
                       {M_email, M_phone9, M_address}
                [] ctx.data_collection_step = "address" -> {M_address}
                [] OTHER -> Messages)
      [] ctx.current_state = CONFIRMATION ->
             {M_tak, M_nie, M_obraz}
      [] ctx.current_state = END ->
             {M_tak, M_nie, M_obraz}
      [] OTHER -> Messages

\* number of messages held in context.additional_info
info_count(ctx) ==
    IF hasattr(ctx, "additional_info")
    THEN 1 + Cardinality({i \in 1..Len(ctx.additional_info) :
                             ctx.additional_info[i] = "\n"})
    ELSE 0

\* the state after main() has handled the message with result r
Apply(message, r) ==
    /\ prompt' = message
    /\ context' = r.context
    /\ session' = r.session
    /\ calendar_table' = r.calendar_table
    /\ generated' = r.generated
    /\ restarts' = r.restarts
    /\ set_state_call' = r.set_state_call
    /\ response' = r.response
    /\ calls' = r.calls
    /\ UNCHANGED <<today, knowledge_base, kb_call, calendar_call, parked>>

Welcome(m) ==
    /\ context.current_state = WELCOME
    /\ Apply(m, handle_welcome(m))

DeviceVerification(m) ==
    /\ context.current_state = DEVICE_VERIFICATION
    /\ \E search_ok \in BOOLEAN : Apply(m, handle_device_verification(m, search_ok))

IssueAnalysis(m) ==
    /\ context.current_state = ISSUE_ANALYSIS
    /\ \E ai_ok \in BOOLEAN : Apply(m, handle_issue_analysis(m, ai_ok))

CheckResolution(m) ==
    /\ context.current_state = CHECK_RESOLUTION
    /\ (is_affirmative(m) \/ is_negative(m) \/ info_count(context) < MaxInfo)
    /\ Apply(m, handle_check_resolution(m))

IssueReported(m) ==
    /\ context.current_state = ISSUE_REPORTED
    /\ Apply(m, handle_issue_reported(m))

ServiceScheduling(m) ==
    /\ context.current_state = SERVICE_SCHEDULING
    /\ \E fetch_ok \in BOOLEAN : Apply(m, handle_service_scheduling(m, fetch_ok))

CollectCustomerInfo(m) ==
    /\ context.current_state = COLLECT_CUSTOMER_INFO
    /\ Apply(m, handle_collect_customer_info(m))

Confirmation(m) ==
    /\ context.current_state = CONFIRMATION
    /\ \E insert_ok \in BOOLEAN, event_ok \in BOOLEAN :
           Apply(m, handle_confirmation(m, insert_ok, event_ok))

End(m) ==
    /\ context.current_state = END
    /\ (is_affirmative(m) => restarts < MaxRestarts)
    /\ Apply(m, handle_end(m))

Init ==
    /\ context = ConversationContext
    /\ session = InitialSession
    /\ today = FirstDay + 4
    /\ calendar_table = <<>>
    /\ prompt = <<>>
    /\ response = Reply("welcome")
    /\ set_state_call = NoCall
    /\ generated = <<>>
    /\ restarts = 0
    /\ calls = {}
    /\ knowledge_base = KnowledgeBase(<<>>, <<>>, <<>>)
    /\ kb_call = NoCall
    /\ calendar_call = NoCall
    /\ parked = None

\* main(), lines 867-913: one message is handled by the handler of the state
Next ==
    \/ \E m \in InputsFor(context, session) : Welcome(m)
    \/ \E m \in InputsFor(context, session) : DeviceVerification(m)
    \/ \E m \in InputsFor(context, session) : IssueAnalysis(m)
    \/ \E m \in InputsFor(context, session) : CheckResolution(m)
    \/ \E m \in InputsFor(context, session) : IssueReported(m)
    \/ \E m \in InputsFor(context, session) : ServiceScheduling(m)
    \/ \E m \in InputsFor(context, session) : CollectCustomerInfo(m)
    \/ \E m \in InputsFor(context, session) : Confirmation(m)
    \/ \E m \in InputsFor(context, session) : End(m)

Spec == Init /\ [][Next]_vars

-----------------------------------------------------------------------------
(* set_state on its own: every state, every requested target *)

Transition(new_state) ==
    /\ Len(context.state_history) < MaxHistory
    /\ LET r == set_state(context, new_state)
       IN  /\ context' = r.ctx
           /\ set_state_call' = SetStateCall(new_state, r.ret)
    /\ UNCHANGED <<session, calendar_table, today, prompt, response,
                   generated, restarts, calls, knowledge_base, kb_call,
                   calendar_call, parked>>

InitSetState ==
    /\ context \in {[ConversationContext EXCEPT !.current_state = s] :
                      s \in ConversationState}
    /\ session = InitialSession
    /\ today = FirstDay
    /\ calendar_table = <<>>
    /\ prompt = <<>>
    /\ response = Reply("welcome")
    /\ set_state_call = NoCall
    /\ generated = <<>>
    /\ restarts = 0
    /\ calls = {}
    /\ knowledge_base = KnowledgeBase(<<>>, <<>>, <<>>)
    /\ kb_call = NoCall
    /\ calendar_call = NoCall
    /\ parked = None

NextSetState == \E new_state \in ConversationState : Transition(new_state)

SpecSetState == InitSetState /\ [][NextSetState]_vars

-----------------------------------------------------------------------------
(* slot generation on its own: every generation date, several booking tables *)

\* a conversation that has reached SERVICE_SCHEDULING
SchedulingContext ==
    setattr([ConversationContext EXCEPT
                !.current_state = SERVICE_SCHEDULING,
                !.state_history = <<WELCOME, DEVICE_VERIFICATION, ISSUE_ANALYSIS,
                                    CHECK_RESOLUTION, ISSUE_REPORTED>>,
                !.verified_device = Devices[1],
                !.issue_description = M_obraz,
                !.gdpr_consent = TRUE],
            "attempts", 3)

InitSlots ==
    /\ context = SchedulingContext
    /\ session = [InitialSession EXCEPT
                     !.device_info = Devices[1],
                     !.current_model = Devices[1].fields.model,
                     !.first_verified = Devices[1].fields.model]
    /\ today \in FirstDay..(FirstDay + NumStartDays - 1)
    /\ calendar_table \in InitialTables(today)
    /\ prompt = M_tak
    /\ response = Reply("ask_show_slots")
    /\ set_state_call = SetStateCall(SERVICE_SCHEDULING, TRUE)
    /\ generated = <<>>
    /\ restarts = 0
    /\ calls = {}
    /\ knowledge_base = KnowledgeBase(<<>>, <<>>, <<>>)
    /\ kb_call = NoCall
    /\ calendar_call = NoCall
    /\ parked = None

NextSlots == \E m \in Messages : ServiceScheduling(m)

SpecSlots == InitSlots /\ [][NextSlots]_vars

-----------------------------------------------------------------------------
(* the collection of the customer's data on its own: every text at every step *)

\* a conversation in which the first offered slot has just been chosen
CollectContext ==
    [SchedulingContext EXCEPT
        !.current_state = COLLECT_CUSTOMER_INFO,
        !.state_history = Append(@, SERVICE_SCHEDULING)]

InitCollect ==
    /\ today = FirstDay + 4
    /\ calendar_table = <<Booking(today + 3, 8, 30, "+01:00")>>
    /\ generated = generate_slots(today, get_occupied_slots(calendar_table, TRUE))
    /\ context = CollectContext
    /\ session = [InitialSession EXCEPT
                     !.device_info = Devices[1],
                     !.current_model = Devices[1].fields.model,
                     !.first_verified = Devices[1].fields.model,
                     !.available_slots = generated,
                     !.showing_slots = TRUE,
                     !.selected_slot = slot_at(generated, 1)]
    /\ prompt = M_1
    /\ response = Reply("slot_chosen")
    /\ set_state_call = SetStateCall(COLLECT_CUSTOMER_INFO, TRUE)
    /\ restarts = 0
    /\ calls = {}
    /\ knowledge_base = KnowledgeBase(<<>>, <<>>, <<>>)
    /\ kb_call = NoCall
    /\ calendar_call = NoCall
    /\ parked = None

\* the texts explored at a step: every text where the step validates it
CollectInputs(ctx) ==
    CASE ctx.data_collection_step = "name" -> {M_name}
      [] ctx.data_collection_step = "address" -> {M_address}
      [] OTHER -> Messages

NextCollect == \E m \in CollectInputs(context) : CollectCustomerInfo(m)

SpecCollect == InitCollect /\ [][NextCollect]_vars

-----------------------------------------------------------------------------
(* Properties of the transition function, checked under SpecSetState *)

\* C1: a request for a target that is not in the outgoing set of the current
\* state returns false and leaves current_state and state_history (the whole
\* context) as they were
C1_InvalidTransitionRejected ==
    [][(/\ set_state_call'.called
        /\ set_state_call'.new_state \notin VALID_STATE_TRANSITIONS[context.current_state])
       => (/\ set_state_call'.ret = FALSE
           /\ context'.current_state = context.current_state
           /\ context'.state_history = context.state_history
           /\ context' = context)]_vars

\* a rejected request has been made
C1_Witness ==
    /\ set_state_call.called
    /\ ~set_state_call.ret
    /\ set_state_call.new_state \notin VALID_STATE_TRANSITIONS[context.current_state]
    /\ set_state_call.new_state # context.current_state

\* C2: a request for a target in the outgoing set of the current state S
\* returns true, makes the target the current state and appends exactly one
\* entry, the tag of S, to the end of state_history
C2_ValidTransitionApplied ==
    [][(/\ set_state_call'.called
        /\ set_state_call'.new_state \in VALID_STATE_TRANSITIONS[context.current_state])
       => (/\ set_state_call'.ret = TRUE
           /\ context'.current_state = set_state_call'.new_state
           /\ context'.state_history =
                  Append(context.state_history, context.current_state))]_vars

\* two accepted requests in a row: the history holds the two states left
C2_Witness ==
    /\ set_state_call.called
    /\ set_state_call.ret
    /\ context.current_state = ISSUE_ANALYSIS
    /\ context.state_history = <<WELCOME, DEVICE_VERIFICATION>>

\* C3: the table has an entry for each of the ten states, every state but END
\* has an outgoing edge, and the only edge of END leads to WELCOME
C3_TableShape ==
    /\ DOMAIN VALID_STATE_TRANSITIONS = ConversationState
    /\ Cardinality(DOMAIN VALID_STATE_TRANSITIONS) = 10
    /\ context.current_state \in DOMAIN VALID_STATE_TRANSITIONS
    /\ \A s \in ConversationState \ {END} : VALID_STATE_TRANSITIONS[s] # {}
    /\ VALID_STATE_TRANSITIONS[END] = {WELCOME}

\* the edge of END has been taken: a conversation restarted from END
C3_Witness ==
    /\ context.current_state = WELCOME
    /\ context.state_history # <<>>
    /\ context.state_history[Len(context.state_history)] = END
    /\ set_state_call = SetStateCall(WELCOME, TRUE)

-----------------------------------------------------------------------------
(* Properties of the conversation, checked under Spec *)

\* C4: between two handled messages, a state other than WELCOME has the
\* consent, the states from ISSUE_ANALYSIS to CONFIRMATION have a verified
\* device, and the states from CHECK_RESOLUTION to CONFIRMATION have a
\* non-empty issue description
C4_ProceduralOrdering ==
    /\ (context.current_state # WELCOME => context.gdpr_consent = TRUE)
    /\ (context.current_state \in
            {ISSUE_ANALYSIS, CHECK_RESOLUTION, ISSUE_REPORTED,
             SERVICE_SCHEDULING, COLLECT_CUSTOMER_INFO, CONFIRMATION}
          => context.verified_device # None)
    /\ (context.current_state \in
            {CHECK_RESOLUTION, ISSUE_REPORTED, SERVICE_SCHEDULING,
             COLLECT_CUSTOMER_INFO, CONFIRMATION}
          => context.issue_description # <<>>)

\* a conversation has come as far as the confirmation of the booking
C4_Witness ==
    /\ context.current_state = CONFIRMATION
    /\ context.gdpr_consent
    /\ context.verified_device # None
    /\ context.issue_description # <<>>

\* the texts that count as a yes, in any letter case
AffirmativeText(message) ==
    /\ Len(message) \in 1..3
    /\ message[1] \in {"t", "T", "y", "Y"}
    /\ (Len(message) = 1 \/ Len(message) = 3)
    /\ (Len(message) = 3 /\ message[1] \in {"t", "T"}
          => message[2] \in {"a", "A"} /\ message[3] \in {"k", "K"})
    /\ (Len(message) = 3 /\ message[1] \in {"y", "Y"}
          => message[2] \in {"e", "E"} /\ message[3] \in {"s", "S"})

\* C5: in WELCOME without consent, a yes (tak/t/yes/y in any letter case)
\* records the consent, moves to DEVICE_VERIFICATION and asks for the serial
\* number; a no or any other text leaves the state WELCOME and the consent
\* false
C5_WelcomeConsent ==
    [][(context.current_state = WELCOME /\ ~context.gdpr_consent)
       => IF AffirmativeText(prompt')
          THEN /\ context'.gdpr_consent = TRUE
               /\ context'.current_state = DEVICE_VERIFICATION
               /\ response' = Reply("serial_request")
          ELSE /\ context'.current_state = WELCOME
               /\ context'.gdpr_consent = FALSE]_vars

\* the consent was given in capital letters
C5_Witness ==
    /\ prompt = M_TAK
    /\ context.current_state = DEVICE_VERIFICATION
    /\ context.gdpr_consent
    /\ context.state_history = <<WELCOME>>
    /\ response = Reply("serial_request")

\* the message starts with "sn:" or "sn " in any letter case
SerialPrefixed(message) ==
    /\ Len(message) >= 3
    /\ message[1] \in {"s", "S"}
    /\ message[2] \in {"n", "N"}
    /\ message[3] \in {":", " "}

\* the registry holds a device under the serial number given in the message
Registered(message) ==
    \E i \in 1..Len(Devices) :
        Devices[i].fields.serial_number = clean_serial(message)

\* C6: in DEVICE_VERIFICATION the state changes only when the message has
\* the serial-number prefix and the lookup succeeds, and then to
\* ISSUE_ANALYSIS with the device stored; a message without the prefix, a
\* serial number the registry does not hold and a failed lookup leave the
\* state DEVICE_VERIFICATION and verified_device unset, with a re-prompt or
\* a not-found reply
C6_DeviceVerification ==
    [][context.current_state = DEVICE_VERIFICATION
       => /\ (context'.current_state # DEVICE_VERIFICATION
                => /\ SerialPrefixed(prompt')
                   /\ Registered(prompt')
                   /\ response'.kind = "device_verified"
                   /\ context'.current_state = ISSUE_ANALYSIS
                   /\ context'.verified_device # None
                   /\ context'.verified_device.fields.serial_number
                          = clean_serial(prompt'))
          /\ (~SerialPrefixed(prompt') \/ ~Registered(prompt')
                \/ response'.kind # "device_verified"
                => /\ context'.current_state = DEVICE_VERIFICATION
                   /\ context'.verified_device = None
                   /\ response'.kind \in {"serial_reprompt", "device_not_found"})
          /\ (~SerialPrefixed(prompt') => response'.kind = "serial_reprompt")]_vars

\* a prefixed serial number that the registry does not hold was turned away
C6_Witness ==
    /\ prompt = M_sn_unknown
    /\ context.current_state = DEVICE_VERIFICATION
    /\ context.verified_device = None
    /\ response = ReplyFor("device_not_found", "not_found")

\* the value of the counter of failed attempts; 0 before the first
Attempts(ctx) ==
    IF "attempts" \in DOMAIN ctx THEN ctx.attempts ELSE 0

\* a reply that says the problem is still there: a plain no, or one of the
\* phrases the handler reads as one
NegativeReply(message) ==
    \/ lower(message) \in {<<"n","i","e">>, <<"n">>, <<"n","o">>}
    \/ \E phrase \in {<<"n","a","d","a","l">>, <<"w","c","i","a~","z^">>,
                      <<"d","a","l","e","j">>,
                      <<"n","i","e"," ","p","o","m","o","g","l~","o">>,
                      <<"n","i","e"," ","d","z","i","a","l~","a">>} :
           contains(lower(message), phrase)

\* C7: in CHECK_RESOLUTION the first and the second negative reply of a
\* conversation leave the state as it is, with attempts 1 and then 2, the
\* third moves the state to ISSUE_REPORTED, and a yes moves it to END
\* whatever the count
C7_ThreeAttempts ==
    [][context.current_state = CHECK_RESOLUTION
       => /\ Attempts(context) <= 2
          /\ (AffirmativeText(prompt') => context'.current_state = END)
          /\ (~AffirmativeText(prompt') /\ NegativeReply(prompt')
                => /\ Attempts(context') = Attempts(context) + 1
                   /\ (Attempts(context) < 2
                         => context'.current_state = CHECK_RESOLUTION)
                   /\ (Attempts(context) = 2
                         => context'.current_state = ISSUE_REPORTED))]_vars

\* the third no has moved the conversation to ISSUE_REPORTED
C7_Witness ==
    /\ prompt = M_nie
    /\ context.current_state = ISSUE_REPORTED
    /\ Attempts(context) = 3
    /\ response = Reply("offer_service_visit")

-----------------------------------------------------------------------------
(* The phone number, checked under SpecCollect *)

\* the number of digits in the text
DigitCount(message) ==
    Cardinality({i \in 1..Len(message) : message[i] \in Digits})

\* C8: at step phone a text is accepted (stored as the phone, step email)
\* exactly when it holds at least 9 digits; any other text leaves the step
\* phone and customer_info as it was
C8_PhoneNeedsNineDigits ==
    [][(/\ context.current_state = COLLECT_CUSTOMER_INFO
        /\ context.data_collection_step = "phone")
       => IF DigitCount(prompt') >= 9
          THEN /\ context'.data_collection_step = "email"
               /\ "phone" \in DOMAIN context'.customer_info
               /\ context'.customer_info.phone = prompt'
          ELSE /\ context'.data_collection_step = "phone"
               /\ context'.customer_info = context.customer_info]_vars

-----------------------------------------------------------------------------
(* Properties of the slots, checked under SpecSlots *)

\* C9: once a list has been generated and shown, the 1-based number i of an
\* offered slot stores as selected_slot the i-th element of the list that
\* the generation built, and moves the state to COLLECT_CUSTOMER_INFO
C9_SelectionRoundTrip ==
    [][(/\ context.current_state = SERVICE_SCHEDULING
        /\ session.showing_slots
        /\ int(prompt').ok
        /\ int(prompt').value \in 1..Len(generated))
       => (/\ session'.selected_slot = generated[int(prompt').value]
           /\ context'.current_state = COLLECT_CUSTOMER_INFO)]_vars

\* the second slot of the generated list has been chosen
C9_Witness ==
    /\ prompt = M_2
    /\ context.current_state = COLLECT_CUSTOMER_INFO
    /\ Len(generated) >= 2
    /\ session.selected_slot = generated[2]
    /\ session.selected_slot # generated[1]

\* the records of the table that fall into the hour of the slot
BookedAt(ordinal, hour) ==
    is_slot_occupied([ord |-> ordinal, hour |-> hour, minute |-> 0],
                     get_occupied_slots(calendar_table, TRUE))

ReturnedBookings(fetch) ==
    IF fetch.ok THEN occupied_of(calendar_table) ELSE <<>>

\* one of the bookings falls on the date and into the hour
BookedAmong(bookings, ordinal, hour) ==
    \E i \in 1..Len(bookings) :
        bookings[i].ord = ordinal /\ bookings[i].hour = hour

\* C11: no generated slot has the date and hour of a booking that the store
\* returned to the generation, whatever the minutes of the booking, and every
\* candidate (working day of the 10 days ahead, hour 8 to 17) without such a
\* booking is in the generated list
C11_BookedHoursExcluded ==
    \A fetch \in calls :
        fetch.call = "get_occupied_slots"
          => /\ \A k \in 1..Len(generated) :
                    ~BookedAmong(ReturnedBookings(fetch),
                                 generated[k].ord, generated[k].hour)
             /\ \A d \in (today + 1)..(today + 10), h \in 8..17 :
                    (weekday(d) \in 0..4
                       /\ ~BookedAmong(ReturnedBookings(fetch), d, h))
                      => \E k \in 1..Len(generated) :
                             generated[k] = [ord |-> d, hour |-> h, minute |-> 0]

\* a booking at 08:30 was returned and the 08:00 slot of its day is left out
C11_Witness ==
    /\ calls = {Called("get_occupied_slots", TRUE)}
    /\ calendar_table = <<Booking(today + 3, 8, 30, "+01:00")>>
    /\ weekday(today + 3) \in 0..4
    /\ response = Reply("slot_list")
    /\ \A k \in 1..Len(generated) :
           ~(generated[k].ord = today + 3 /\ generated[k].hour = 8)
    /\ \E k \in 1..Len(generated) :
           generated[k].ord = today + 3 /\ generated[k].hour = 9

-----------------------------------------------------------------------------
(* Further properties of the conversation, checked under Spec *)

\* the texts that count as a no, in any letter case
NegativeText(message) ==
    lower(message) \in {<<"n","i","e">>, <<"n">>, <<"n","o">>}

\* C12: in CONFIRMATION a no (nie/n/no) moves the state to SERVICE_SCHEDULING
C12_ConfirmationDeclined ==
    [][(context.current_state = CONFIRMATION /\ NegativeText(prompt'))
       => context'.current_state = SERVICE_SCHEDULING]_vars

\* C13: a yes in END leaves the conversation in WELCOME with the consent,
\* the device, the issue description, the attempts counter, the customer
\* data, the collection step, the offered slots with the slots-shown flag
\* and the selected slot all at their initial values
C13_FreshAfterRestart ==
    [][(context.current_state = END /\ AffirmativeText(prompt'))
       => /\ context'.current_state = WELCOME
          /\ context'.gdpr_consent = FALSE
          /\ context'.verified_device = None
          /\ context'.issue_description = <<>>
          /\ "attempts" \notin DOMAIN context'
          /\ context'.customer_info = <<>>
          /\ context'.data_collection_step = "name"
          /\ session'.available_slots = <<>>
          /\ session'.showing_slots = FALSE
          /\ session'.selected_slot = None]_vars

\* C14: when the transition a handler requests is rejected, its reply is the
\* generic retry reply, never the reply that announces the next step
C14_RejectedTransitionRetry ==
    (set_state_call.called /\ ~set_state_call.ret)
      => response.kind \in {"consent_error_retry", "analysis_error_retry"}

\* C15: a yes in CONFIRMATION ends the conversation only if every call that
\* persists the booking succeeded; if one of them failed, the reply is the
\* apology and the state stays CONFIRMATION
C15_BookingFailureKeepsState ==
    [][(context.current_state = CONFIRMATION /\ AffirmativeText(prompt'))
       => /\ (context'.current_state = END
                => /\ calls' # {}
                   /\ \A c \in calls' : c.ok)
          /\ ((\E c \in calls' : ~c.ok)
                => /\ response' = Reply("booking_error")
                   /\ context'.current_state = CONFIRMATION)]_vars

-----------------------------------------------------------------------------
(* The failed read of the bookings, checked under SpecSlots *)

\* C16: when the read of the bookings fails during the generation, the reply
\* is an apology, no list is offered, showing_slots stays false and the
\* state stays SERVICE_SCHEDULING
C16_FetchFailureApology ==
    Called("get_occupied_slots", FALSE) \in calls
      => /\ response.kind \notin {"slot_list"}
         /\ session.available_slots = <<>>
         /\ session.showing_slots = FALSE
         /\ context.current_state = SERVICE_SCHEDULING

-----------------------------------------------------------------------------
(* Python float arithmetic (IEEE 754 binary64, round to nearest, ties to   *)
(* even) on the non-negative values the relevance scores take.  A float is *)
(* 0.0 (no digits) or man * 2^exp, where man is the 53-bit significand     *)
(* written in base 2^13, least significant digit first.                    *)

\* sys.float_info.mant_dig
mant_dig == 53

Float(man, exp) == [man |-> man, exp |-> exp]

Zeros(n) == [i \in 1..n |-> 0]

RECURSIVE pow2(_)
pow2(n) == IF n = 0 THEN 1 ELSE 2 * pow2(n - 1)

\* int.bit_length
RECURSIVE bit_length(_)
bit_length(n) == IF n = 0 THEN 0 ELSE 1 + bit_length(n \div 2)

\* the digits without the zeros at the top
trimmed(l) ==
    IF \A k \in 1..Len(l) : l[k] = 0 THEN <<>>
    ELSE SubSeq(l, 1, CHOOSE k \in 1..Len(l) :
                          l[k] # 0 /\ \A h \in (k + 1)..Len(l) : l[h] = 0)

\* the digits of the number whose digit k is l[k] plus the carry c
RECURSIVE carried(_, _, _)
carried(l, k, c) ==
    IF k > Len(l)
    THEN IF c = 0 THEN <<>> ELSE <<c % 8192>> \o carried(l, k, c \div 8192)
    ELSE <<(l[k] + c) % 8192>> \o carried(l, k + 1, (l[k] + c) \div 8192)

\* the number of bits of a number
bits(l) == IF l = <<>> THEN 0 ELSE 13 * (Len(l) - 1) + bit_length(l[Len(l)])

nat_add(a, b) ==
    trimmed(carried([k \in 1..(IF Len(a) > Len(b) THEN Len(a) ELSE Len(b)) |->
                        (IF k <= Len(a) THEN a[k] ELSE 0)
                        + (IF k <= Len(b) THEN b[k] ELSE 0)], 1, 0))

RECURSIVE column(_, _, _, _)
column(a, b, k, i) ==
    IF i > Len(a) THEN 0
    ELSE (IF k + 1 - i \in 1..Len(b) THEN a[i] * b[k + 1 - i] ELSE 0)
         + column(a, b, k, i + 1)

nat_mul(a, b) ==
    trimmed(carried([k \in 1..(Len(a) + Len(b) - 1) |-> column(a, b, k, 1)], 1, 0))

\* l * 2^n
shift_left(l, n) ==
    Zeros(n \div 13)
    \o trimmed(carried([k \in 1..Len(l) |-> l[k] * pow2(n % 13)], 1, 0))

\* l \div 2^n
shift_right(l, n) ==
    LET h == SubSeq(l, (n \div 13) + 1, Len(l))
    IN  trimmed([k \in 1..Len(h) |->
                    (h[k] \div pow2(n % 13))
                    + (IF k < Len(h)
                       THEN (h[k + 1] % pow2(n % 13)) * pow2(13 - (n % 13))
                       ELSE 0)])

\* l % 2^n is not 0
low_bits(l, n) ==
    \/ \E k \in 1..(n \div 13) : k <= Len(l) /\ l[k] # 0
    \/ (n \div 13) + 1 <= Len(l) /\ l[(n \div 13) + 1] % pow2(n % 13) # 0

\* the significand man, or the next one, whichever is nearer: half is the
\* bit below man, rest tells whether anything lies below that bit
nearest(man, exp, half, rest) ==
    IF ~(half /\ (rest \/ man[1] % 2 = 1)) THEN Float(man, exp)
    ELSE IF bits(nat_add(man, <<1>>)) > mant_dig
    THEN Float(shift_right(nat_add(man, <<1>>), 1), exp + 1)
    ELSE Float(nat_add(man, <<1>>), exp)

\* the float nearest to l * 2^exp (plus a fraction of its last place when
\* inexact), ties to the even significand
rounded(l, exp, inexact) ==
    IF l = <<>> THEN Float(<<>>, 0)
    ELSE IF bits(l) <= mant_dig
    THEN Float(shift_left(l, mant_dig - bits(l)), exp - (mant_dig - bits(l)))
    ELSE nearest(shift_right(l, bits(l) - mant_dig),
                 exp + bits(l) - mant_dig,
                 shift_right(l, bits(l) - mant_dig - 1)[1] % 2 = 1,
                 inexact \/ low_bits(l, bits(l) - mant_dig - 1))

\* the quotient d of the digits below with one more digit on top
divided(d, digit) == [q |-> Append(d.q, digit), r |-> d.r]

\* the quotient and remainder of a number by b, from its digit k down, r being
\* the remainder of the digits above
RECURSIVE long_division(_, _, _, _)
long_division(l, b, k, r) ==
    IF k = 0 THEN [q |-> <<>>, r |-> r]
    ELSE divided(long_division(l, b, k - 1, (8192 * r + l[k]) % b),
                 (8192 * r + l[k]) \div b)

\* the float nearest to the quotient d of a * 2^65 by b
quotient(d) == rounded(trimmed(d.q), -65, d.r # 0)

\* a / b for two ints (int.__truediv__), and float(a) / float(b)
true_div(a, b) ==
    IF a = 0 THEN Float(<<>>, 0)
    ELSE quotient(long_division(Zeros(5) \o carried(<<a>>, 1, 0), b,
                                5 + Len(carried(<<a>>, 1, 0)), 0))

\* x * y
float_mul(x, y) ==
    IF x.man = <<>> \/ y.man = <<>> THEN Float(<<>>, 0)
    ELSE rounded(nat_mul(x.man, y.man), x.exp + y.exp, FALSE)

\* x + y
float_add(x, y) ==
    IF x.man = <<>> THEN y
    ELSE IF y.man = <<>> THEN x
    ELSE LET e == IF x.exp < y.exp THEN x.exp ELSE y.exp
         IN  rounded(nat_add(shift_left(x.man, x.exp - e), shift_left(y.man, y.exp - e)),
                     e, FALSE)

\* the comparison of two significands
greater(a, b) ==
    \E k \in 1..Len(a) : /\ a[k] > b[k]
                         /\ \A h \in (k + 1)..Len(a) : a[h] = b[h]

\* x >= y
float_ge(x, y) ==
    \/ x = y
    \/ /\ x.man # <<>>
       /\ \/ y.man = <<>>
          \/ x.exp > y.exp
          \/ x.exp = y.exp /\ greater(x.man, y.man)

\* x > y
float_gt(x, y) ==
    /\ x.man # <<>>
    /\ \/ y.man = <<>>
       \/ x.exp > y.exp
       \/ x.exp = y.exp /\ greater(x.man, y.man)

-----------------------------------------------------------------------------
(* difflib.SequenceMatcher(None, a, b).ratio() on two strings shorter than *)
(* 200 characters (no junk, no popular characters).                        *)

\* length of the common run of a[i..ahi] and b[j..bhi]
RECURSIVE common_run(_, _, _, _, _, _)
common_run(a, b, i, j, ahi, bhi) ==
    IF i > ahi \/ j > bhi THEN 0
    ELSE IF a[i] # b[j] THEN 0
    ELSE 1 + common_run(a, b, i + 1, j + 1, ahi, bhi)

maximum(S) == CHOOSE n \in S : \A k \in S : n >= k

minimum(S) == CHOOSE n \in S : \A k \in S : n <= k

\* the block of the given size that starts at a[i] and earliest in b
earliest_in_b(a, b, i, ahi, blo, bhi, size) ==
    [a |-> i,
     b |-> minimum({j \in blo..bhi : common_run(a, b, i, j, ahi, bhi) = size}),
     size |-> size]

\* the block of the given size that starts earliest in a, and of those the
\* one that starts earliest in b
earliest(a, b, alo, ahi, blo, bhi, size) ==
    earliest_in_b(a, b,
                  minimum({i \in alo..ahi :
                              \E j \in blo..bhi :
                                  common_run(a, b, i, j, ahi, bhi) = size}),
                  ahi, blo, bhi, size)

\* the longest matching block of a[alo..ahi] and b[blo..bhi]
find_longest_match(a, b, alo, ahi, blo, bhi) ==
    earliest(a, b, alo, ahi, blo, bhi,
             maximum({common_run(a, b, i, j, ahi, bhi) :
                         i \in alo..ahi, j \in blo..bhi}))

RECURSIVE matches(_, _, _, _, _, _)

\* the characters of the block m and of the blocks to its left and right
RECURSIVE around(_, _, _, _, _, _, _)
around(a, b, alo, ahi, blo, bhi, m) ==
    IF m.size = 0 THEN 0
    ELSE m.size
         + matches(a, b, alo, m.a - 1, blo, m.b - 1)
         + matches(a, b, m.a + m.size, ahi, m.b + m.size, bhi)

\* the number of characters in the blocks of get_matching_blocks
matches(a, b, alo, ahi, blo, bhi) ==
    IF alo > ahi \/ blo > bhi THEN 0
    ELSE around(a, b, alo, ahi, blo, bhi,
                find_longest_match(a, b, alo, ahi, blo, bhi))

\* 2.0 * matches / length, and 1.0 for two empty strings
ratio(a, b) ==
    IF Len(a) + Len(b) = 0 THEN true_div(1, 1)
    ELSE true_div(2 * matches(a, b, 1, Len(a), 1, Len(b)), Len(a) + Len(b))

-----------------------------------------------------------------------------
(* src/utils/knowledge.py *)

\* re.findall(r'\w+', text): the maximal runs of word characters
RECURSIVE findall_words(_, _)
findall_words(s, cur) ==
    IF s = <<>> THEN (IF cur = <<>> THEN <<>> ELSE <<cur>>)
    ELSE IF ~IsWordChar(Head(s))
         THEN (IF cur = <<>> THEN findall_words(Tail(s), <<>>)
               ELSE <<cur>> \o findall_words(Tail(s), <<>>))
    ELSE findall_words(Tail(s), Append(cur, Head(s)))

tokenize(text) == findall_words(lower(text), <<>>)

calculate_keyword_match(problem_tokens, keywords) ==
    IF keywords = <<>> THEN Float(<<>>, 0)
    ELSE IF problem_tokens = <<>> THEN Float(<<>>, 0)
    ELSE true_div(Cardinality({t \in 1..Len(problem_tokens) :
                                 \E k \in 1..Len(keywords) :
                                     contains(keywords[k], problem_tokens[t])}),
                  Len(problem_tokens))

\* the larger of two floats, the first one if they are equal
larger(x, y) == IF float_gt(y, x) THEN y ELSE x

\* max() of a non-empty sequence of floats
RECURSIVE max(_)
max(scores) ==
    IF Len(scores) = 1 THEN scores[1]
    ELSE larger(scores[1], max(Tail(scores)))

MinSymptomLength == 5

calculate_symptom_match(problem, symptoms) ==
    LET long == SelectSeq(symptoms, LAMBDA symptom : Len(symptom) > MinSymptomLength)
        symptom_scores == [i \in 1..Len(long) |-> ratio(lower(problem), long[i])]
    IN  IF long = <<>> THEN Float(<<>>, 0) ELSE max(symptom_scores)

calculate_text_similarity(text1, text2) == ratio(lower(text1), lower(text2))

\* the space of the f-string that joins problem and solution
SPACE == <<" ">>

\* the float literals 0.4, 0.3 and 0.3 of the weighted sum
KeywordWeight == true_div(4, 10)

SymptomWeight == true_div(3, 10)

ContentWeight == true_div(3, 10)

\* the float literals 0.2 and 0.15 of the two thresholds
TroubleshootingThreshold == true_div(2, 10)

UsageGuideThreshold == true_div(15, 100)

\* (keyword_match * 0.4) + (symptom_match * 0.3) + (content_match * 0.3)
troubleshooting_relevance(item, problem, problem_tokens) ==
    LET keyword_match == calculate_keyword_match(
                             problem_tokens,
                             [k \in 1..Len(item.metadata.keywords) |->
                                 lower(item.metadata.keywords[k])])
        symptom_match == calculate_symptom_match(
                             problem,
                             [k \in 1..Len(item.metadata.symptoms) |->
                                 lower(item.metadata.symptoms[k])])
        content_match == calculate_text_similarity(
                             problem, item.problem \o SPACE \o item.solution)
    IN  float_add(float_add(float_mul(keyword_match, KeywordWeight),
                            float_mul(symptom_match, SymptomWeight)),
                  float_mul(content_match, ContentWeight))

\* the threshold as  >=  instead of  >
troubleshooting_kept_at_threshold(relevance) ==
    float_ge(relevance, TroubleshootingThreshold)

\* relevance > 0.2
troubleshooting_kept(relevance) == float_gt(relevance, TroubleshootingThreshold)

search_troubleshooting(self, model, problem, problem_tokens) ==
    LET compatible ==
            SelectSeq(self.troubleshooting,
                      LAMBDA item : ~(/\ item.metadata.device_model # <<>>
                                      /\ item.metadata.device_model # model))
        scored ==
            [i \in 1..Len(compatible) |->
                [content |-> <<"Problem: ", compatible[i].problem,
                               "\n\nRozwiazanie: ", compatible[i].solution>>,
                 relevance |-> troubleshooting_relevance(compatible[i], problem,
                                                         problem_tokens),
                 type |-> "troubleshooting"]]
    IN  SelectSeq(scored, LAMBDA match : troubleshooting_kept(match.relevance))

UNKNOWN_DEVICE == <<"u","n","k","n","o","w","n">>

\* the documents that reach the scoring line, where the call of the method
\* _calculate_relevance, which the class does not define, raises
scored_documents(self, model) ==
    SelectSeq(self.documents,
              LAMBDA doc : ~(/\ model # <<>>
                             /\ model # UNKNOWN_DEVICE
                             /\ doc.metadata.device_model # <<>>
                             /\ doc.metadata.device_model # model))

\* nothing is appended to results before scoring raises, and the except
\* clause returns []
search_documents(self, model, problem_description, problem_tokens) ==
    LET results == <<>>
    IN  IF scored_documents(self, model) # <<>> THEN <<>>
        ELSE SubSeq(results, 1, 0)

search_usage_guides(self, model, problem, problem_tokens) ==
    LET compatible ==
            SelectSeq(self.usage_guides,
                      LAMBDA guide : ~(/\ guide.metadata.device_model # <<>>
                                       /\ guide.metadata.device_model # model))
        scored ==
            [i \in 1..Len(compatible) |->
                [content |-> <<"Instrukcja: ", compatible[i].title, "\n\n",
                               compatible[i].content>>,
                 relevance |-> calculate_text_similarity(problem,
                                                         compatible[i].content),
                 type |-> "usage_guide"]]
    IN  SelectSeq(scored, LAMBDA match : float_gt(match.relevance, UsageGuideThreshold))

generate_response_message(solutions) ==
    LET types == {solutions[i].type : i \in 1..Len(solutions)}
    IN  IF solutions = <<>> THEN Reply("no_matches")
        ELSE IF "troubleshooting" \in types
        THEN ReplyFor("potential_solutions", Len(solutions))
        ELSE IF "documentation" \in types
        THEN ReplyFor("related_documentation", Len(solutions))
        ELSE ReplyFor("related_information", Len(solutions))

\* the place of a candidate before the sorted candidates of its relevance
placed_first(front, last) ==
    SelectSeq(front, LAMBDA s : float_gt(s.relevance, last.relevance))
    \o <<last>>
    \o SelectSeq(front, LAMBDA s : ~float_gt(s.relevance, last.relevance))

\* the place of a candidate among the sorted candidates that came before it:
\* after those of greater or equal relevance
placed(front, last) ==
    SelectSeq(front, LAMBDA s : float_ge(s.relevance, last.relevance))
    \o <<last>>
    \o SelectSeq(front, LAMBDA s : ~float_ge(s.relevance, last.relevance))

\* solutions.sort(key=relevance, reverse=True): descending, and candidates of
\* equal relevance stay in the order they had
RECURSIVE sort(_)
sort(solutions) ==
    IF solutions = <<>> THEN <<>>
    ELSE placed(sort(SubSeq(solutions, 1, Len(solutions) - 1)),
                solutions[Len(solutions)])

MinSolutions == 3

MaxSolutions == 5

\* the test before the document and usage guide searches, one candidate later
too_few_or_three(solutions) == Len(solutions) <= MinSolutions

\* len(solutions) < 3
too_few(solutions) == Len(solutions) < MinSolutions

\* the returned pair, with the object after the call (self), the searches
\* called and the candidates they kept, in the order of discovery
returned(self, searched, kept, solutions) ==
    [self |-> self,
     searched |-> searched,
     kept |-> kept,
     solutions |-> SubSeq(solutions, 1,
                          IF Len(solutions) < MaxSolutions THEN Len(solutions)
                          ELSE MaxSolutions),
     message |-> generate_response_message(solutions)]

\* lines 102-108: the sort, the message and the first five
ranked(self, searched, kept) == returned(self, searched, kept, sort(kept))

\* lines 95-100: the usage guides, if still too few
with_usage_guides(self, model, problem_description, problem_tokens, searched, solutions) ==
    IF too_few(solutions)
    THEN ranked(self, Append(searched, "_search_usage_guides"),
                solutions \o search_usage_guides(self, model, problem_description,
                                                 problem_tokens))
    ELSE ranked(self, searched, solutions)

\* lines 88-93: the documents, if too few
with_documents(self, model, problem_description, problem_tokens, searched, solutions) ==
    IF too_few(solutions)
    THEN with_usage_guides(self, model, problem_description, problem_tokens,
                           Append(searched, "_search_documents"),
                           solutions \o search_documents(self, model,
                                                         problem_description,
                                                         problem_tokens))
    ELSE with_usage_guides(self, model, problem_description, problem_tokens,
                           searched, solutions)

\* a find_solution that reverses the loaded troubleshooting entries in place
\* before it searches them
find_solution_in_place(self, model, problem_description) ==
    with_documents([self EXCEPT !.troubleshooting =
                       [i \in 1..Len(@) |-> @[Len(@) + 1 - i]]],
                   model, problem_description, tokenize(problem_description),
                   <<"_search_troubleshooting">>,
                   search_troubleshooting(self, model, problem_description,
                                          tokenize(problem_description)))

find_solution(self, model, problem_description) ==
    with_documents(self, model, problem_description, tokenize(problem_description),
                   <<"_search_troubleshooting">>,
                   search_troubleshooting(self, model, problem_description,
                                          tokenize(problem_description)))

-----------------------------------------------------------------------------
(* find_solution on its own: several loaded collections, every device model *)
(* and two descriptions of a problem                                        *)

\* entries of troubleshooting.json
TroubleshootingEntries ==
    <<[problem |-> <<"s","o","n","d","a">>,
       solution |-> <<"b","r","a","k">>,
       metadata |-> [device_model |-> <<>>,
                     keywords |-> <<<<"u","s","g">>>>,
                     symptoms |-> <<<<"b","r","a","k">>>>]],
      [problem |-> <<"k","a","b","e","l">>,
       solution |-> <<"w","t","y","k">>,
       metadata |-> [device_model |-> <<>>,
                     keywords |-> <<<<"u","s","g">>, <<"o","b","r","a","z","u">>>>,
                     symptoms |-> <<>>]],
      [problem |-> <<"o","b","r","a","z"," ","r","o","z","m","y","t","y">>,
       solution |-> <<"u","s","t","a","w"," ","o","s","t","r","o","s","c">>,
       metadata |-> [device_model |-> <<"V","1">>,
                     keywords |-> <<<<"O","b","r","a","z">>, <<"r","o","z","m","y","t","y">>>>,
                     symptoms |-> <<<<"o","b","r","a","z"," ","j","e","s","t"," ","r","o","z","m","y","t","y">>>>]],
      [problem |-> <<"n","i","e"," ","m","a"," ","o","b","r","a","z","u">>,
       solution |-> <<"s","p","r","a","w","d","z"," ","k","a","b","e","l">>,
       metadata |-> [device_model |-> <<>>,
                     keywords |-> <<<<"o","b","r","a","z","u">>, <<"e","k","r","a","n">>>>,
                     symptoms |-> <<<<"n","i","e"," ","m","a"," ","o","b","r","a","z","u">>>>]],
      [problem |-> <<"b","r","a","k"," ","o","b","r","a","z","u">>,
       solution |-> <<"w","y","m","i","e","n"," ","k","a","b","e","l">>,
       metadata |-> [device_model |-> <<>>,
                     keywords |-> <<<<"o","b","r","a","z">>>>,
                     symptoms |-> <<<<"c","z","a","r","n","y"," ","e","k","r","a","n">>>>]],
      [problem |-> <<"b","r","a","k"," ","o","b","r","a","z","u">>,
       solution |-> <<"w","y","m","i","e","n"," ","s","o","n","d","e">>,
       metadata |-> [device_model |-> <<>>,
                     keywords |-> <<<<"o","b","r","a","z">>>>,
                     symptoms |-> <<<<"c","z","a","r","n","y"," ","e","k","r","a","n">>>>]],
      [problem |-> <<"b","r","a","k"," ","o","b","r","a","z","u"," ","n","a"," ","u","s","g">>,
       solution |-> <<"r","e","s","t","a","r","t">>,
       metadata |-> [device_model |-> <<"V","2">>,
                     keywords |-> <<<<"u","s","g">>>>,
                     symptoms |-> <<<<"n","a"," ","u","s","g"," ","n","i","e"," ","m","a"," ","o","b","r","a","z","u">>>>]],
      [problem |-> <<"u","s","g"," ","n","i","e"," ","s","t","a","r","t","u","j","e">>,
       solution |-> <<"w","l","a","c","z"," ","z","a","s","i","l","a","n","i","e">>,
       metadata |-> [device_model |-> <<>>,
                     keywords |-> <<<<"u","s","g">>, <<"n","i","e">>>>,
                     symptoms |-> <<<<"u","s","g"," ","n","i","e"," ","d","z","i","a","l","a">>>>]]>>

\* entries of usage.json
UsageGuides ==
    <<[title |-> <<"O","b","r","a","z">>,
       content |-> <<"r","e","g","u","l","a","c","j","a"," ","o","b","r","a","z","u"," ","u","s","g">>,
       metadata |-> [device_model |-> <<>>]],
      [title |-> <<"S","o","n","d","a">>,
       content |-> <<"n","a"," ","u","s","g"," ","n","i","e"," ","m","a"," ","o","b","r","a","z","u">>,
       metadata |-> [device_model |-> <<"V","2">>]]>>

\* entries of documents.json
Documents ==
    <<[content |-> <<"I","n","s","t","r","u","k","c","j","a"," ","s","e","r","w","i","s","o","w","a"," ","u","s","g">>,
       metadata |-> [device_model |-> <<"V","1">>]]>>

M_brak_obrazu == <<"n","a"," ","u","s","g"," ","n","i","e"," ","m","a"," ","o","b","r","a","z","u">>

\* the loaded collections explored: every prefix of the troubleshooting
\* entries with the usage guides and the documents loaded; the empty, the
\* half and the whole list with no file or only the usage guides loaded
KnowledgeBases ==
    {KnowledgeBase(Documents, SubSeq(TroubleshootingEntries, 1, n), UsageGuides) :
        n \in 0..Len(TroubleshootingEntries)}
    \cup
    {KnowledgeBase(<<>>, SubSeq(TroubleshootingEntries, 1, n), usage_guides) :
        usage_guides \in {<<>>, UsageGuides},
        n \in {0, Len(TroubleshootingEntries) \div 2, Len(TroubleshootingEntries)}}

\* the device models asked for: the two registered ones and 'unknown'
Models == {Devices[1].fields.model, Devices[2].fields.model, UNKNOWN_DEVICE}

\* the descriptions asked about
Problems == {M_brak_obrazu, M_obraz}

\* the state after a call that returned r; repeated tells whether the call
\* before it had the same arguments
Returned(model, problem_description, r) ==
    /\ knowledge_base' = r.self
    /\ kb_call' = [called |-> TRUE,
                   model |-> model,
                   problem_description |-> problem_description,
                   repeated |-> /\ kb_call.called
                                /\ kb_call.model = model
                                /\ kb_call.problem_description = problem_description,
                   searched |-> r.searched,
                   kept |-> r.kept,
                   solutions |-> r.solutions,
                   message |-> r.message]
    /\ UNCHANGED <<context, session, calendar_table, today, prompt, response,
                   set_state_call, generated, restarts, calls, calendar_call,
                   parked>>

FindSolution(model, problem_description) ==
    Returned(model, problem_description,
             find_solution(knowledge_base, model, problem_description))

InitKnowledge ==
    /\ context = ConversationContext
    /\ session = InitialSession
    /\ today = FirstDay
    /\ calendar_table = <<>>
    /\ prompt = <<>>
    /\ response = Reply("welcome")
    /\ set_state_call = NoCall
    /\ generated = <<>>
    /\ restarts = 0
    /\ calls = {}
    /\ knowledge_base \in KnowledgeBases
    /\ kb_call = NoCall
    /\ calendar_call = NoCall
    /\ parked = None

NextKnowledge ==
    \E model \in Models, problem_description \in Problems :
        FindSolution(model, problem_description)

SpecKnowledge == InitKnowledge /\ [][NextKnowledge]_vars

-----------------------------------------------------------------------------
(* Properties of the ranking engine, checked under SpecKnowledge *)

TroubleshootingCandidate(item, relevance) ==
    [content |-> <<"Problem: ", item.problem, "\n\nRozwiazanie: ", item.solution>>,
     relevance |-> relevance,
     type |-> "troubleshooting"]

\* the entry is one the search scores for the device model
Compatible(item, model) ==
    item.metadata.device_model = <<>> \/ item.metadata.device_model = model

\* the relevance the last call computed for the entry
RelevanceOf(item) ==
    troubleshooting_relevance(item, kb_call.problem_description,
                              tokenize(kb_call.problem_description))

\* the candidates the last call kept contain one made of the entry
Kept(item) ==
    \E k \in 1..Len(kb_call.kept) :
        /\ kb_call.kept[k].type = "troubleshooting"
        /\ kb_call.kept[k].content = TroubleshootingCandidate(item, 0).content

\* an entry of relevance exactly 0.2 is not kept, an entry of any greater
\* relevance is kept with that relevance
StrictlyAbove(item, relevance) ==
    /\ relevance = true_div(2, 10) => ~Kept(item)
    /\ (float_ge(relevance, true_div(2, 10)) /\ relevance # true_div(2, 10))
       => \E k \in 1..Len(kb_call.kept) :
              kb_call.kept[k] = TroubleshootingCandidate(item, relevance)

\* C18: the troubleshooting threshold is strict: a scored troubleshooting
\* entry whose combined relevance (0.4 keyword + 0.3 symptom + 0.3 content, as
\* the double the search computes) is exactly 0.2 is not kept as a candidate,
\* and one whose relevance is greater than 0.2 by any amount is kept
C18_StrictThreshold ==
    kb_call.called =>
        \A i \in 1..Len(knowledge_base.troubleshooting) :
            Compatible(knowledge_base.troubleshooting[i], kb_call.model)
            => StrictlyAbove(knowledge_base.troubleshooting[i],
                             RelevanceOf(knowledge_base.troubleshooting[i]))

\* the entry's relevance is 0.2 and it was left out
AtThreshold(item, relevance) ==
    relevance = true_div(2, 10) /\ ~Kept(item)

\* the entry's relevance is the double next above 0.2 and it was kept
NextAboveThreshold(item, relevance) ==
    /\ relevance = Float(nat_add(true_div(2, 10).man, <<1>>), true_div(2, 10).exp)
    /\ Kept(item)

\* a call that scored one entry at exactly 0.2 and left it out, and another at
\* the next double above 0.2 and kept it
C18_Witness ==
    /\ kb_call.called
    /\ \E i \in 1..Len(knowledge_base.troubleshooting) :
           AtThreshold(knowledge_base.troubleshooting[i],
                       RelevanceOf(knowledge_base.troubleshooting[i]))
    /\ \E j \in 1..Len(knowledge_base.troubleshooting) :
           NextAboveThreshold(knowledge_base.troubleshooting[j],
                              RelevanceOf(knowledge_base.troubleshooting[j]))

\* the place of the kept candidate k in the ranking: one more than the number
\* of kept candidates of greater relevance, or of equal relevance and
\* discovered before it
Rank(kept, k) ==
    1 + Cardinality({h \in 1..Len(kept) :
                        \/ /\ float_ge(kept[h].relevance, kept[k].relevance)
                           /\ kept[h].relevance # kept[k].relevance
                        \/ /\ kept[h].relevance = kept[k].relevance
                           /\ h < k})

\* C19: the returned list has at most 5 candidates, is ordered by
\* non-increasing relevance, consists of the 5 kept candidates of highest
\* relevance (all of them when fewer were kept), and orders candidates of
\* equal relevance by discovery: troubleshooting, then documents, then usage
\* guides, and within a source in the order of the collection
C19_TopFiveStable ==
    kb_call.called =>
        /\ Len(kb_call.solutions) <= 5
        /\ Len(kb_call.solutions) = (IF Len(kb_call.kept) < 5 THEN Len(kb_call.kept) ELSE 5)
        /\ \A i, j \in 1..Len(kb_call.solutions) :
               i < j => float_ge(kb_call.solutions[i].relevance,
                                 kb_call.solutions[j].relevance)
        /\ \A k \in 1..Len(kb_call.kept) :
               Rank(kb_call.kept, k) <= 5
               => kb_call.solutions[Rank(kb_call.kept, k)] = kb_call.kept[k]

\* a call that kept six candidates, not in the order of their relevance, two
\* of them of equal relevance, and returned five
C19_Witness ==
    /\ kb_call.called
    /\ Len(kb_call.kept) = 6
    /\ Len(kb_call.solutions) = 5
    /\ \E h, k \in 1..6 : /\ h < k
                          /\ float_gt(kb_call.kept[k].relevance,
                                      kb_call.kept[h].relevance)
    /\ \E i \in 1..4 : /\ kb_call.solutions[i].relevance
                             = kb_call.solutions[i + 1].relevance
                       /\ kb_call.solutions[i] # kb_call.solutions[i + 1]

\* the number of candidates of a kind in a list
CountOf(solutions, type) ==
    Cardinality({k \in 1..Len(solutions) : solutions[k].type = type})

\* the searches the last call made
Searched == {kb_call.searched[k] : k \in 1..Len(kb_call.searched)}

\* C20: documents are searched only when the troubleshooting search kept
\* fewer than 3 candidates, and usage guides are searched only when fewer than
\* 3 candidates were kept after the document step; a result with 3 or more
\* troubleshooting candidates contains troubleshooting candidates only
C20_FallThrough ==
    kb_call.called =>
        /\ "_search_documents" \in Searched
           => CountOf(kb_call.kept, "troubleshooting") < 3
        /\ "_search_usage_guides" \in Searched
           => CountOf(kb_call.kept, "troubleshooting")
              + CountOf(kb_call.kept, "document") < 3
        /\ CountOf(kb_call.solutions, "troubleshooting") >= 3
           => \A k \in 1..Len(kb_call.solutions) :
                  kb_call.solutions[k].type = "troubleshooting"

\* a call that kept exactly three troubleshooting entries and searched
\* neither the loaded documents nor the loaded usage guides
C20_Witness ==
    /\ kb_call.called
    /\ knowledge_base.documents # <<>>
    /\ knowledge_base.usage_guides # <<>>
    /\ CountOf(kb_call.kept, "troubleshooting") = 3
    /\ Searched = {"_search_troubleshooting"}
    /\ Len(kb_call.solutions) = 3

-----------------------------------------------------------------------------
(* src/utils/calendar.py: CalendarClient.parse_preferred_time and            *)
(* CalendarClient.get_available_slots_around, and their caller in app.py     *)

\* CalendarClient.__init__, lines 26-50: the attributes the object has
CalendarClient ==
    [logger |-> "logger", timezone |-> "Europe/Warsaw", airtable |-> "Calendar"]

\* the naive datetime of a date and a time of day
datetime(ordinal, hour, minute) ==
    [ord |-> ordinal, hour |-> hour, minute |-> minute]

\* dt + timedelta(hours=hours): wall-clock arithmetic, the minute is kept
plus_hours(dt, hours) ==
    LET wall_hours == dt.ord * 24 + dt.hour + hours
    IN  [dt EXCEPT !.ord = wall_hours \div 24, !.hour = wall_hours % 24]

\* a <= b on datetimes
not_after(a, b) ==
    (a.ord * 24 + a.hour) * 60 + a.minute <= (b.ord * 24 + b.hour) * 60 + b.minute

is_leap(y) == y % 4 = 0 /\ (y % 100 # 0 \/ y % 400 = 0)

days_in_month(y, m) == DAYS_IN_MONTH[m] + (IF m = 2 /\ is_leap(y) THEN 1 ELSE 0)

\* date(y, m, d).toordinal()
ymd2ord(y, m, d) ==
    (y - 1) * 365 + (y - 1) \div 4 - (y - 1) \div 100 + (y - 1) \div 400
        + DAYS_BEFORE_MONTH[m] + (IF m > 2 /\ is_leap(y) THEN 1 ELSE 0) + d

\* the value of a two-digit field
two_digits(s, i) == digits_value(SubSeq(s, i, i + 1), 0)

\* \d{2}:\d{2} matches s at position i
time_at(s, i) ==
    /\ i >= 1
    /\ i + 4 <= Len(s)
    /\ s[i] \in Digits
    /\ s[i + 1] \in Digits
    /\ s[i + 2] = ":"
    /\ s[i + 3] \in Digits
    /\ s[i + 4] \in Digits

\* the match object of a search that matched at the positions hits
first_match(time_str, hits) ==
    IF hits = {} THEN [found |-> FALSE]
    ELSE [found |-> TRUE, group |-> SubSeq(time_str, minimum(hits), minimum(hits) + 4)]

\* line 167, re.search(r'\d{2}:\d{2}', time_str): the first match
time_part(time_str) ==
    first_match(time_str, {i \in 1..Len(time_str) : time_at(time_str, i)})

\* line 153, re.match(r'\d{2}\.\d{2}\s+\d{2}:\d{2}', time_str)
date_match(time_str) ==
    /\ Len(time_str) >= 6
    /\ time_str[1] \in Digits
    /\ time_str[2] \in Digits
    /\ time_str[3] = "."
    /\ time_str[4] \in Digits
    /\ time_str[5] \in Digits
    /\ IsSpace(time_str[6])
    /\ time_at(time_str, skip_space(time_str, 6))

\* lines 155-158, datetime.strptime(f"{year}.{time_str}", '%Y.%d.%m %H:%M') on
\* a string that matched line 153; [ok |-> FALSE] stands for ValueError
strptime(y, time_str) ==
    LET k == skip_space(time_str, 6)
        d == two_digits(time_str, 1)
        m == two_digits(time_str, 4)
        hour == two_digits(time_str, k)
        minute == two_digits(time_str, k + 3)
    IN  IF /\ k + 4 = Len(time_str)
           /\ m \in 1..12
           /\ d >= 1
           /\ d <= days_in_month(y, m)
           /\ hour <= 23
           /\ minute <= 59
        THEN [ok |-> TRUE, value |-> datetime(ymd2ord(y, m, d), hour, minute)]
        ELSE [ok |-> FALSE]

\* self.timezone.localize(dt): the wall time with its Europe/Warsaw offset
localize(dt) ==
    [ord |-> dt.ord, hour |-> dt.hour, minute |-> dt.minute,
     tz |-> warsaw_localize(dt)]

\* lines 162-163, in the order the dictionary is iterated
days ==
    <<[day |-> <<"p","o","n","i","e","d","z","i","a","l~","e","k">>, day_num |-> 0],
      [day |-> <<"w","t","o","r","e","k">>, day_num |-> 1],
      [day |-> <<"s~","r","o","d","a">>, day_num |-> 2],
      [day |-> <<"c","z","w","a","r","t","e","k">>, day_num |-> 3],
      [day |-> <<"p","i","a~","t","e","k">>, day_num |-> 4],
      [day |-> <<"s","o","b","o","t","a">>, day_num |-> 5],
      [day |-> <<"n","i","e","d","z","i","e","l","a">>, day_num |-> 6]>>

\* line 172: the requested time of today counts as passed
passed_today(now, hour, minute) == now.hour >= hour

\* lines 169-181: the day found and the time found, at the clock reading now
next_occurrence(now, day_num, group) ==
    LET hour == two_digits(group, 1)
        minute == two_digits(group, 4)
        days_ahead == (day_num - weekday(now.ord)) % 7
        rolled == IF days_ahead = 0 /\ passed_today(now, hour, minute)
                  THEN 7 ELSE days_ahead
    IN  IF hour <= 23 /\ minute <= 59
        THEN localize(datetime(now.ord + rolled, hour, minute))
        ELSE None

\* lines 165-181: named are the entries of days found in the text, part
\* is the time found in it
first_named(now, named, part) ==
    IF named # {} /\ part.found
    THEN next_occurrence(now, days[minimum(named)].day_num, part.group)
    ELSE None

\* lines 155-159: the date and time typed, in the year of now
this_year(date_obj) == IF date_obj.ok THEN localize(date_obj.value) ELSE None

\* parse_preferred_time, lines 150-187, when datetime.now() reads now
parse_preferred_time(self, time_str, now) ==
    IF date_match(time_str) THEN this_year(strptime(year(now), time_str))
    ELSE first_named(now,
                     {k \in 1..Len(days) : contains(lower(time_str), days[k].day)},
                     time_part(time_str))

BusinessHoursStart == 9
BusinessHoursEnd == 17

\* lines 116-122: the hourly candidates from current to end_range
RECURSIVE all_slots(_, _)
all_slots(current, end_range) ==
    IF ~not_after(current, end_range) THEN <<>>
    ELSE (IF BusinessHoursStart <= current.hour /\ current.hour < BusinessHoursEnd
          THEN <<current>> ELSE <<>>)
         \o all_slots(plus_hours(current, 1), end_range)

\* line 139, slot.strftime('%Y-%m-%dT%H:%M:%SZ'): the wall time, marked Z
strftime(slot) ==
    [ord |-> slot.ord, hour |-> slot.hour, minute |-> slot.minute, tz |-> "Z"]

\* get_available_slots_around, lines 109-148; events are the start times a
\* date_search would report.  self.calendar is read at line 125: an object
\* without the attribute raises AttributeError, caught at line 146
get_available_slots_around(self, preferred_time, hours_range, events) ==
    LET start_range == plus_hours(preferred_time, 0 - hours_range)
        end_range == plus_hours(preferred_time, hours_range)
        slots == all_slots([start_range EXCEPT !.minute = 0], end_range)
        available(slot) == \A k \in 1..Len(events) : events[k] # slot
    IN  IF ~hasattr(self, "calendar") THEN <<>>
        ELSE LET free == SelectSeq(slots, available)
             IN  [k \in 1..Len(free) |-> strftime(free[k])]

HoursRange == 2

\* lines 616-633: the session and the reply, given the values of the two
\* calls.  Line 621 calls format_single_slot, which CalendarClient does not
\* define: with slots to show, the AttributeError escapes after line 620 has
\* stored them
custom_slot_reply(ses, preferred_slot, available_slots) ==
    [session |-> IF available_slots # <<>>
                 THEN [ses EXCEPT !.available_slots = available_slots]
                 ELSE ses,
     preferred |-> preferred_slot,
     available |-> available_slots,
     response |-> IF preferred_slot = None THEN Reply("date_format")
                  ELSE IF available_slots # <<>> THEN Reply("AttributeError")
                  ELSE Reply("no_free_slots")]

\* lines 617-618: the slots around the preferred time, if there is one
slots_near(calendar_client, ses, preferred_slot, events) ==
    custom_slot_reply(ses, preferred_slot,
                      IF preferred_slot = None THEN <<>>
                      ELSE get_available_slots_around(calendar_client, preferred_slot,
                                                      HoursRange, events))

\* handle_custom_slot_request, app.py lines 611-633
handle_custom_slot_request(message, calendar_client, ses, now, events) ==
    slots_near(calendar_client, ses,
               parse_preferred_time(calendar_client, message, now), events)

-----------------------------------------------------------------------------
(* the two CalendarClient methods and their caller on their own: every day  *)
(* of a week, several times of day, several texts                           *)

DigitChars == <<"0","1","2","3","4","5","6","7","8","9">>

\* HH or MM as the user types it
two_digit_text(n) == <<DigitChars[(n \div 10) + 1], DigitChars[(n % 10) + 1]>>

\* a day of the week and a time, as the user types them
WeekdayText(k, hour, minute) ==
    days[k].day \o <<" ">> \o two_digit_text(hour) \o <<":">> \o two_digit_text(minute)

AskedDays == {2, 5}
AskedTimes == {<<9, 30>>, <<10, 0>>, <<10, 45>>}

TimeStrings ==
    {WeekdayText(k, t[1], t[2]) : k \in AskedDays, t \in AskedTimes}
    \cup
    {<<"W","t","o","r","e","k"," ","1","0",":","4","5">>,
     <<"s","o","b","o","t","a"," ","2","5",":","0","0">>,
     <<"j","u","t","r","o"," ","1","0",":","0","0">>,
     <<"w","t","o","r","e","k">>,
     <<"s~","r","o","d","a"," ","c","z","y"," ","w","t","o","r","e","k"," ","0","8",":","1","5">>,
     <<"1","2",".","0","4"," ","1","0",":","0","0">>,
     <<"3","1",".","0","4"," "," ","1","0",":","0","0">>,
     <<"1","2",".","0","4"," ","1","0",":","0","0","!">>}

\* the requests made through handle_custom_slot_request
CustomSlotRequests ==
    {WeekdayText(2, 10, 45),
     <<"j","u","t","r","o"," ","1","0",":","0","0">>,
     <<"1","2",".","0","4"," ","1","0",":","0","0">>}

\* the times of day at which a call reads the clock
Clocks == {<<9, 0>>, <<10, 15>>, <<10, 45>>}

\* the preferred times asked about directly: the day after today
PreferredTimes ==
    {localize(datetime(today + 1, hour, minute)) :
        hour \in {7, 10, 16, 20}, minute \in {0, 30}}

HoursRanges == {1, 2}

\* the start times of the bookings in the store
booked_times(table) == [k \in 1..Len(table) |-> table[k].date_time]

CalendarCall(call, time_str, now, preferred_time, hours_range, value) ==
    [called |-> TRUE, call |-> call, time_str |-> time_str, now |-> now,
     preferred_time |-> preferred_time, hours_range |-> hours_range,
     returned |-> value]

ParsePreferredTime(time_str, clock) ==
    /\ calendar_call' =
           CalendarCall("parse_preferred_time", time_str,
                        datetime(today, clock[1], clock[2]), None, 0,
                        parse_preferred_time(CalendarClient, time_str,
                                             datetime(today, clock[1], clock[2])))
    /\ UNCHANGED <<context, session, calendar_table, today, prompt, response,
                   set_state_call, generated, restarts, calls, knowledge_base,
                   kb_call, parked>>

GetAvailableSlotsAround(preferred_time, hours_range) ==
    /\ calendar_call' =
           CalendarCall("get_available_slots_around", <<>>, None, preferred_time,
                        hours_range,
                        get_available_slots_around(CalendarClient, preferred_time,
                                                   hours_range,
                                                   booked_times(calendar_table)))
    /\ UNCHANGED <<context, session, calendar_table, today, prompt, response,
                   set_state_call, generated, restarts, calls, knowledge_base,
                   kb_call, parked>>

\* the caller is reached from no handler of main(): its reply is kept with
\* the values of its two calls
HandleCustomSlotRequest(message, clock) ==
    LET r == handle_custom_slot_request(message, CalendarClient, session,
                                        datetime(today, clock[1], clock[2]),
                                        booked_times(calendar_table))
    IN  /\ session' = r.session
        /\ calendar_call' =
               CalendarCall("handle_custom_slot_request", message,
                            datetime(today, clock[1], clock[2]), r.preferred,
                            HoursRange,
                            [available |-> r.available, response |-> r.response])
        /\ UNCHANGED <<context, calendar_table, today, prompt, response,
                       set_state_call, generated, restarts, calls, knowledge_base,
                       kb_call, parked>>

InitCalendar ==
    /\ context = [ConversationContext EXCEPT !.current_state = SERVICE_SCHEDULING]
    /\ session = InitialSession
    /\ today \in FirstDay..(FirstDay + NumStartDays - 1)
    /\ calendar_table \in {<<>>, <<Booking(today + 1, 10, 0, "+01:00")>>}
    /\ prompt = <<>>
    /\ response = Reply("welcome")
    /\ set_state_call = NoCall
    /\ generated = <<>>
    /\ restarts = 0
    /\ calls = {}
    /\ knowledge_base = KnowledgeBase(<<>>, <<>>, <<>>)
    /\ kb_call = NoCall
    /\ calendar_call = NoCall
    /\ parked = None

NextCalendar ==
    \/ \E time_str \in TimeStrings, clock \in Clocks :
           ParsePreferredTime(time_str, clock)
    \/ \E preferred_time \in PreferredTimes, hours_range \in HoursRanges :
           GetAvailableSlotsAround(preferred_time, hours_range)
    \/ \E message \in CustomSlotRequests, clock \in Clocks :
           HandleCustomSlotRequest(message, clock)

SpecCalendar == InitCalendar /\ [][NextCalendar]_vars

-----------------------------------------------------------------------------
(* Properties of the calendar client, checked under SpecCalendar *)

\* the hours on the clock from start_range to end_range
RECURSIVE HourlyBetween(_, _, _)
HourlyBetween(wall_hours, start_range, end_range) ==
    IF wall_hours * 60 > (end_range.ord * 24 + end_range.hour) * 60 + end_range.minute
    THEN <<>>
    ELSE (IF wall_hours * 60 >= (start_range.ord * 24 + start_range.hour) * 60
                                    + start_range.minute
          THEN <<[ord |-> wall_hours \div 24, hour |-> wall_hours % 24,
                  minute |-> 0, tz |-> "Z"]>>
          ELSE <<>>)
         \o HourlyBetween(wall_hours + 1, start_range, end_range)

InBusinessHours(slot) ==
    BusinessHoursStart <= slot.hour /\ slot.hour < BusinessHoursEnd

FreeOf(table, slot) ==
    \A k \in 1..Len(table) :
        ~(/\ table[k].date_time.ord = slot.ord
          /\ table[k].date_time.hour = slot.hour
          /\ table[k].date_time.minute = slot.minute)

FreeInBusinessHours(slot) == InBusinessHours(slot) /\ FreeOf(calendar_table, slot)

\* C21: get_available_slots_around returns exactly the hourly candidates
\* from preferred - hours_range to preferred + hours_range that lie in the
\* business hours and are not booked, so with no booking and a preferred
\* time in business hours the result is not empty
C21_SlotsAround ==
    (calendar_call.called /\ calendar_call.call = "get_available_slots_around")
    => LET start_range == plus_hours(calendar_call.preferred_time,
                                     0 - calendar_call.hours_range)
           end_range == plus_hours(calendar_call.preferred_time,
                                   calendar_call.hours_range)
       IN  calendar_call.returned
               = SelectSeq(HourlyBetween(start_range.ord * 24 + start_range.hour,
                                         start_range, end_range),
                           FreeInBusinessHours)

\* the date of the first occurrence of the weekday at hour:minute that is
\* not before now
EarliestOccurrence(now, day_num, hour, minute) ==
    LET days_ahead == (day_num - weekday(now.ord)) % 7
    IN  IF days_ahead = 0 /\ hour * 60 + minute < now.hour * 60 + now.minute
        THEN now.ord + 7
        ELSE now.ord + days_ahead

\* C22: for a weekday name and HH:MM, parse_preferred_time returns the
\* earliest occurrence of that weekday at that time at or after now: today
\* when today is that weekday and HH:MM has not passed, next week only
\* when HH:MM has passed today
C22_NextOccurrence ==
    \A k \in AskedDays, t \in AskedTimes :
        (/\ calendar_call.called
         /\ calendar_call.call = "parse_preferred_time"
         /\ calendar_call.time_str = WeekdayText(k, t[1], t[2]))
        => calendar_call.returned
               = localize(datetime(EarliestOccurrence(calendar_call.now,
                                                      days[k].day_num, t[1], t[2]),
                                   t[1], t[2]))

-----------------------------------------------------------------------------
(* Further properties of the diagnostic dialogue, checked under Spec *)

-----------------------------------------------------------------------------
(* the diagnosis on its own: a verified device, several descriptions of a   *)
(* problem, and the replies to the question whether the advice helped       *)

M_przegrzewa == <<"u","s","g"," ","p","r","z","e","g","r","z","e","w","a"," ","s","i","e~">>
M_dwa_slowa == <<"u","l","t","r","a","s","o","n","o","g","r","a","f"," ","p","r","z","e","g","r","z","e","w","a">>
M_nie_wlacza == <<"u","s","g"," ","n","i","e"," ","w","l~","a~","c","z","a"," ","s","i","e~">>
M_piszczy == <<"u","s","g"," ","p","i","s","z","c","z","y"," ","g","l~","o","s~","n","o">>
M_robi_restart == <<"u","s","g"," ","r","o","b","i"," ","r","e","s","t","a","r","t"," ","s","a","m">>
M_restart_obraz == <<"r","e","s","t","a","r","t"," ","i"," ","b","r","a","k"," ","o","b","r","a","z","u">>

\* what is typed in ISSUE_ANALYSIS
Descriptions ==
    {M_obraz, M_przegrzewa, M_dwa_slowa, M_nie_wlacza, M_piszczy, M_robi_restart,
     M_restart_obraz, M_long_restart, M_long_offtopic, M_restart, M_tak}

\* what is typed in CHECK_RESOLUTION
ResolutionReplies == {M_tak, M_nie, M_nadal, M_obraz}

\* a conversation in which a device has just been verified
DiagnosisContext(device) ==
    [ConversationContext EXCEPT
        !.current_state = ISSUE_ANALYSIS,
        !.state_history = <<WELCOME, DEVICE_VERIFICATION>>,
        !.verified_device = device,
        !.gdpr_consent = TRUE]

InitDiagnosis ==
    /\ \E k \in 1..Len(Devices) :
          /\ context = DiagnosisContext(Devices[k])
          /\ session = [InitialSession EXCEPT
                           !.device_info = Devices[k],
                           !.current_model = Devices[k].fields.model,
                           !.first_verified = Devices[k].fields.model]
          /\ prompt = <<M_sn_a, M_sn_b>>[k]
    /\ today = FirstDay
    /\ calendar_table = <<>>
    /\ response = Reply("device_verified")
    /\ set_state_call = SetStateCall(ISSUE_ANALYSIS, TRUE)
    /\ generated = <<>>
    /\ restarts = 0
    /\ calls = {}
    /\ knowledge_base = KnowledgeBase(<<>>, <<>>, <<>>)
    /\ kb_call = NoCall
    /\ calendar_call = NoCall
    /\ parked = None

NextDiagnosis ==
    \/ \E m \in Descriptions : IssueAnalysis(m)
    \/ \E m \in ResolutionReplies : CheckResolution(m)

SpecDiagnosis == InitDiagnosis /\ [][NextDiagnosis]_vars

-----------------------------------------------------------------------------
(* Properties of the diagnosis, checked under SpecDiagnosis *)

\* C25: the category of the problem that chose the questions of the first
\* failed attempt is the category that chooses the remedy of the second
C25_SameCategory ==
    [][(response.kind = "questions" /\ response'.kind = "remedy")
       => response'.detail = response.detail]_vars

\* number of words of more than one character
LongWordCount(message) ==
    Cardinality({i \in 1..Len(message) :
                    /\ message[i] # " "
                    /\ (i = 1 \/ message[i - 1] = " ")
                    /\ i < Len(message)
                    /\ message[i + 1] # " "})

\* fewer than 3 words of more than one character and fewer than 20 characters
FewWordsAndShort(message) == LongWordCount(message) < 3 /\ Len(message) < 20

RankingCalled(made) == \E c \in made : c.call = "find_solution"

C30_PhrasingFallback ==
    [][(/\ context.current_state = ISSUE_ANALYSIS
        /\ is_on_topic(prompt')
        /\ ~FewWordsAndShort(prompt'))
       => /\ context'.current_state = CHECK_RESOLUTION
          /\ context'.issue_description = prompt'
          /\ context'.state_history = Append(context.state_history, ISSUE_ANALYSIS)
          /\ response'.kind \in {"analysis_ai", "analysis_fallback"}
          /\ (Called("analyze_problem_with_knowledge", FALSE) \in calls'
                <=> response' = Reply("analysis_fallback"))]_vars

\* the phrasing call has failed and the description was accepted
C30_Witness ==
    /\ Called("analyze_problem_with_knowledge", FALSE) \in calls
    /\ response = Reply("analysis_fallback")
    /\ context.current_state = CHECK_RESOLUTION
    /\ context.issue_description = prompt
    /\ prompt = M_nie_wlacza

-----------------------------------------------------------------------------
(* Further properties of the choice of a slot, checked under SpecSlots *)

\* the number k as the user types it
Numeral(k) == IF k < 10 THEN <<DigitChars[k + 1]>> ELSE two_digit_text(k)

\* the text is the number of one of the offered slots
NamesOfferedSlot(message, ses) ==
    \E k \in 1..Len(ses.available_slots) : strip(message) = Numeral(k)

\* C27: in SERVICE_SCHEDULING with the slots shown, a text that is not a
\* number, a number outside 1..number of offered slots, and the text 'inne'
\* each leave the state SERVICE_SCHEDULING, the selected slot and the offered
\* list as they were
C27_RejectedChoiceKeepsSlots ==
    [][(/\ context.current_state = SERVICE_SCHEDULING
        /\ session.showing_slots
        /\ ~NamesOfferedSlot(prompt', session))
       => (/\ context'.current_state = SERVICE_SCHEDULING
           /\ session'.selected_slot = session.selected_slot
           /\ session'.available_slots = session.available_slots)]_vars

C27_Witness ==
    /\ context.current_state = SERVICE_SCHEDULING
    /\ session.showing_slots
    /\ session.available_slots # <<>>
    /\ prompt = M_99
    /\ response = Reply("range_prompt")
    /\ session.selected_slot = None

\* the text is one of the affirmative words, in any case of letters
AffirmativeWord(message) ==
    \E w \in {M_tak, M_T, M_Yes, M_y} : lower(message) = lower(w)

\* C28: in SERVICE_SCHEDULING an affirmative text has the slot list generated
\* and stored and showing_slots set only when showing_slots is false (then the
\* booking store is read and a list that is not empty is stored and shown);
\* when showing_slots is already true the offered list, showing_slots and the
\* state stay as they were and nothing is generated
C28_AffirmativeGeneratesOnce ==
    [][(/\ context.current_state = SERVICE_SCHEDULING
        /\ AffirmativeWord(prompt'))
       => IF session.showing_slots
          THEN /\ session'.available_slots = session.available_slots
               /\ session'.showing_slots
               /\ context'.current_state = SERVICE_SCHEDULING
               /\ calls' = {}
               /\ generated' = generated
          ELSE /\ calls' # {}
               /\ context'.current_state = SERVICE_SCHEDULING
               /\ (generated' # <<>>
                     => /\ session'.available_slots = generated'
                        /\ session'.showing_slots)
               /\ (generated' = <<>> => ~session'.showing_slots)]_vars

C28_Witness ==
    /\ context.current_state = SERVICE_SCHEDULING
    /\ session.showing_slots
    /\ session.available_slots = generated
    /\ generated # <<>>
    /\ prompt = M_Yes
    /\ response = Reply("pick_from_list_above")

-----------------------------------------------------------------------------
(* The order of the customer's data, checked under SpecCollect *)

\* the step that follows each step; address is the last one
StepAfter ==
    [name |-> "phone", phone |-> "email", email |-> "address",
     address |-> "address"]

\* the reply says that the phone number or the e-mail address was refused
Refused(reply) == reply.kind \in {"invalid_phone", "invalid_email"}

\* C29: in COLLECT_CUSTOMER_INFO the step goes name, phone, email, address,
\* one step for each accepted text, never back and never over a step; a
\* refused phone number or e-mail address leaves the step and customer_info
\* as they were; the state becomes CONFIRMATION exactly when the text was
\* received at step address
C29_StepOrder ==
    [][(context.current_state = COLLECT_CUSTOMER_INFO)
       => LET step == context.data_collection_step
          IN  /\ step \in DOMAIN StepAfter
              /\ IF Refused(response')
                 THEN /\ step \in {"phone", "email"}
                      /\ context'.data_collection_step = step
                      /\ context'.customer_info = context.customer_info
                 ELSE /\ context'.data_collection_step = StepAfter[step]
                      /\ step \in DOMAIN context'.customer_info
                      /\ context'.customer_info[step] = prompt'
                      /\ \A f \in DOMAIN context'.customer_info \ {step} :
                            /\ f \in DOMAIN context.customer_info
                            /\ context'.customer_info[f] = context.customer_info[f]
              /\ (context'.current_state = CONFIRMATION <=> step = "address")
              /\ context'.current_state
                    \in {COLLECT_CUSTOMER_INFO, CONFIRMATION}]_vars

C29_Witness ==
    /\ context.current_state = CONFIRMATION
    /\ context.data_collection_step = "address"
    /\ DOMAIN context.customer_info = {"name", "phone", "email", "address"}
    /\ context.customer_info.address = prompt
    /\ response = Reply("confirm_data")

-----------------------------------------------------------------------------
(* Two browser sessions. st.session_state belongs to one session: context and *)
(* session are those of the session whose script run handles a message, and   *)
(* parked holds the id of that session and what the other session keeps.      *)
(* The booking store is the one thing the two sessions both reach.            *)

Sessions == {1, 2}

\* one object that every instance would hold as the default of the field
shared_default(owner, name) == <<0, name>>

\* field(default_factory=...): the object built for the field of the context
\* of one session
default_factory(owner, name) == <<owner, name>>

\* the fields of the context that the handlers change in place:
\* state_history.append(...) and customer_info[...] = message
in_place == {"state_history", "customer_info"}

\* the context of another session after the running one has got new_context:
\* an object held by both shows its new content in both
seen_from(other, running, kept, new_context) ==
    [f \in DOMAIN kept |->
        IF f \in in_place /\ default_factory(other, f) = default_factory(running, f)
        THEN new_context[f]
        ELSE kept[f]]

\* the messages of the two conversations: one path to the booked visit, with
\* the refusals on the way
IsolationInputs(ctx) ==
    CASE ctx.current_state = WELCOME -> {M_tak}
      [] ctx.current_state = DEVICE_VERIFICATION -> {M_sn_a}
      [] ctx.current_state = ISSUE_ANALYSIS -> {M_obraz}
      [] ctx.current_state = CHECK_RESOLUTION -> {M_nie}
      [] ctx.current_state = ISSUE_REPORTED -> {M_tak}
      [] ctx.current_state = SERVICE_SCHEDULING -> {M_tak, M_1}
      [] ctx.current_state = COLLECT_CUSTOMER_INFO ->
             (CASE ctx.data_collection_step = "name" -> {M_name}
                [] ctx.data_collection_step = "phone" -> {M_phone9}
                [] ctx.data_collection_step = "email" -> {M_email, M_name}
                [] OTHER -> {M_address})
      [] ctx.current_state = CONFIRMATION -> {M_tak}
      [] OTHER -> {}

\* main(), lines 884-913: the handler of the current state
handled(message, ok) ==
    CASE context.current_state = WELCOME -> handle_welcome(message)
      [] context.current_state = DEVICE_VERIFICATION ->
             handle_device_verification(message, TRUE)
      [] context.current_state = ISSUE_ANALYSIS ->
             handle_issue_analysis(message, TRUE)
      [] context.current_state = CHECK_RESOLUTION ->
             handle_check_resolution(message)
      [] context.current_state = ISSUE_REPORTED ->
             handle_issue_reported(message)
      [] context.current_state = SERVICE_SCHEDULING ->
             handle_service_scheduling(message, TRUE)
      [] context.current_state = COLLECT_CUSTOMER_INFO ->
             handle_collect_customer_info(message)
      [] context.current_state = CONFIRMATION ->
             handle_confirmation(message, ok, ok)
      [] OTHER -> handle_end(message)

\* the running session handles one message
Turn(message, ok) ==
    LET r == handled(message, ok)
    IN  /\ prompt' = message
        /\ context' = r.context
        /\ session' = r.session
        /\ calendar_table' = r.calendar_table
        /\ generated' = r.generated
        /\ restarts' = r.restarts
        /\ set_state_call' = r.set_state_call
        /\ response' = r.response
        /\ calls' = r.calls
        /\ parked' = [parked EXCEPT
                         !.context = seen_from(3 - parked.id, parked.id, @,
                                               r.context)]
        /\ UNCHANGED <<today, knowledge_base, kb_call, calendar_call>>

\* the script runs for the other session: st.session_state is now its own
Switch ==
    /\ context' = parked.context
    /\ session' = parked.session
    /\ parked' = [id |-> 3 - parked.id, context |-> context, session |-> session]
    /\ UNCHANGED <<calendar_table, today, prompt, response, set_state_call,
                   generated, restarts, calls, knowledge_base, kb_call,
                   calendar_call>>

\* initialize_session_state() has run once in each session
InitIsolation ==
    /\ context = ConversationContext
    /\ session = InitialSession
    /\ parked = [id |-> 1, context |-> ConversationContext,
                 session |-> InitialSession]
    /\ today = FirstDay + 4
    /\ calendar_table = <<>>
    /\ prompt = <<>>
    /\ response = Reply("welcome")
    /\ set_state_call = NoCall
    /\ generated = <<>>
    /\ restarts = 0
    /\ calls = {}
    /\ knowledge_base = KnowledgeBase(<<>>, <<>>, <<>>)
    /\ kb_call = NoCall
    /\ calendar_call = NoCall

NextIsolation ==
    \/ \E m \in IsolationInputs(context), ok \in BOOLEAN : Turn(m, ok)
    \/ Switch

SpecIsolation == InitIsolation /\ [][NextIsolation]_vars

\* what session k keeps: its context and the rest of its st.session_state
Conversation(k) ==
    IF parked.id = k
    THEN [context |-> context, session |-> session]
    ELSE [context |-> parked.context, session |-> parked.session]

-----------------------------------------------------------------------------
(* The search of the documents, checked under SpecKnowledge *)

\* the document may be shown for the model: not both set and different
CompatibleDocument(doc, model) ==
    ~(/\ model # <<>>
      /\ model # UNKNOWN_DEVICE
      /\ doc.metadata.device_model # <<>>
      /\ doc.metadata.device_model # model)

\* the lexical overlap of the query with the content is above 0.1: more than
\* one in ten of the tokens of the query occur in the content in lower case
OverlapAboveTenth(problem_description, content) ==
    LET tokens == tokenize(problem_description)
    IN  10 * Cardinality({t \in 1..Len(tokens) : contains(lower(content), tokens[t])})
            > Len(tokens)

\* C31: when the troubleshooting search kept fewer than 3 candidates and a
\* loaded document is compatible with the model and overlaps with the query
\* by more than 0.1, the returned list holds at least one candidate of the
\* type document
C31_DocumentReturned ==
    (/\ kb_call.called
     /\ Len(SelectSeq(kb_call.kept,
                      LAMBDA match : match.type = "troubleshooting")) < 3
     /\ \E i \in 1..Len(knowledge_base.documents) :
           /\ CompatibleDocument(knowledge_base.documents[i], kb_call.model)
           /\ OverlapAboveTenth(kb_call.problem_description,
                                knowledge_base.documents[i].content))
    => \E i \in 1..Len(kb_call.solutions) : kb_call.solutions[i].type = "document"

-----------------------------------------------------------------------------
(* The records that the confirmations leave in the booking store *)

\* the positions of the records that handle_confirmation inserted itself
ConfirmationRecords(table) ==
    {i \in 1..Len(table) : "customer_name" \in DOMAIN table[i]}

\* C32: no two successful confirmations, in successive conversations of one
\* session or in two sessions, leave a booking for the same date and hour
C32_NoDoubleBooking ==
    \A i, j \in ConfirmationRecords(calendar_table) :
        (i < j /\ calendar_table[i].date_time # None
               /\ calendar_table[j].date_time # None)
        => ~(/\ calendar_table[i].date_time.ord = calendar_table[j].date_time.ord
             /\ calendar_table[i].date_time.hour = calendar_table[j].date_time.hour)

\* C33: an affirmative CONFIRMATION that succeeds adds exactly one record to
\* the booking store, and one that replies with the apology adds none
C33_OneRecordPerConfirmation ==
    [][(/\ context.current_state = CONFIRMATION
        /\ is_affirmative(prompt'))
       => (/\ response'.kind = "visit_scheduled"
                => Len(calendar_table') = Len(calendar_table) + 1
           /\ response'.kind = "booking_error"
                => calendar_table' = calendar_table)]_vars

\* C34: the device model written into the record of a booking is (names) the
\* model of the device verified in the conversation that makes the booking,
\* also when an earlier conversation of the session verified another device
C34_BookedModelIsVerified ==
    [][(/\ context.current_state = CONFIRMATION
        /\ response'.kind = "visit_scheduled")
       => contains(calendar_table'[Len(calendar_table) + 1].device_model,
                   context.verified_device.fields.model)]_vars

-----------------------------------------------------------------------------
(* The device model given to the ranking engine, checked under SpecDiagnosis *)

\* C35: the device model that handle_issue_analysis passes to the ranking
\* engine is the model of the device that handle_device_verification stored
\* (the one shown to the user), so that the entries tagged with that model
\* are not filtered out
C35_RankedForVerifiedModel ==
    [][\A c \in calls' :
          c.call = "find_solution"
             => (/\ c.model = context.verified_device.fields.model
                 /\ c.model = session.current_model)]_vars

-----------------------------------------------------------------------------
(* The path of a conversation through the states, checked under Spec *)

\* state_history followed by current_state
Path(ctx) == Append(ctx.state_history, ctx.current_state)

\* C36: in every reachable state of a context, state_history followed by
\* current_state starts with WELCOME and each element is in the outgoing set
\* of the element before it in the transition table
C36_HistoryIsAPath ==
    LET path == Path(context)
    IN  /\ path[1] = WELCOME
        /\ \A i \in 1..(Len(path) - 1) :
              path[i + 1] \in VALID_STATE_TRANSITIONS[path[i]]

C36_Witness ==
    /\ context.current_state = END
    /\ Len(context.state_history) = 8
    /\ restarts = 1

\* the states for which main() has a handler
HandledStates ==
    {WELCOME, DEVICE_VERIFICATION, ISSUE_ANALYSIS, CHECK_RESOLUTION,
     ISSUE_REPORTED, SERVICE_SCHEDULING, COLLECT_CUSTOMER_INFO, CONFIRMATION,
     END}

\* C37: current_state is never GDPR, whatever the messages, so every state in
\* which a message is dispatched has one of the nine handlers and the branch
\* of the dispatcher for an unknown state is never taken
C37_NeverGdpr ==
    /\ context.current_state # GDPR
    /\ context.current_state \in HandledStates
    /\ \A i \in 1..Len(context.state_history) : context.state_history[i] # GDPR

\* a text without a serial number has been sent in DEVICE_VERIFICATION, the
\* one state from which the table lets GDPR be entered
C37_Witness ==
    /\ context.current_state = DEVICE_VERIFICATION
    /\ response = Reply("serial_reprompt")
    /\ set_state_call = NoCall

\* the three states of the booking of a visit
BookingStates == {SERVICE_SCHEDULING, COLLECT_CUSTOMER_INFO, CONFIRMATION}

\* C38: a conversation in SERVICE_SCHEDULING, COLLECT_CUSTOMER_INFO or
\* CONFIRMATION reaches END only by an affirmative message in CONFIRMATION
\* whose booking call did not raise; no other message leaves these states
\* for END
C38_EndOnlyByBooking ==
    [][(/\ context.current_state \in BookingStates
        /\ context'.current_state \notin BookingStates)
       => (/\ context.current_state = CONFIRMATION
           /\ context'.current_state = END
           /\ AffirmativeWord(prompt')
           /\ \E c \in calls' : c.call = "insert" /\ c.ok)]_vars

C38_Witness ==
    /\ context.current_state = END
    /\ context.state_history[Len(context.state_history)] = CONFIRMATION
    /\ prompt = M_tak
    /\ response = Reply("visit_scheduled")
    /\ Called("insert", TRUE) \in calls

\* C39: whenever current_state is CONFIRMATION, customer_info holds the four
\* fields name, phone, email and address, data_collection_step is address,
\* and a slot is selected that is an element of the offered slot list
C39_ConfirmationComplete ==
    context.current_state = CONFIRMATION
    => (/\ {"name", "phone", "email", "address"} \subseteq DOMAIN context.customer_info
        /\ context.data_collection_step = "address"
        /\ session.selected_slot # None
        /\ \E i \in 1..Len(session.available_slots) :
              session.available_slots[i] = session.selected_slot)

\* the second conversation of a session has reached CONFIRMATION
C39_Witness ==
    /\ context.current_state = CONFIRMATION
    /\ restarts = 1
    /\ DOMAIN context.customer_info = {"name", "phone", "email", "address"}
    /\ session.selected_slot # None

-----------------------------------------------------------------------------
(* The conversation with a user who goes on answering: in each state the    *)
(* user eventually sends a message that the handler of the state accepts,   *)
(* with the device found, the booking stored and a slot free                *)

\* in each state, a message that the handler of the state accepts
AcceptedInputs(ctx, ses) ==
    CASE ctx.current_state = WELCOME -> {M_tak}
      [] ctx.current_state = DEVICE_VERIFICATION -> {M_sn_a}
      [] ctx.current_state = ISSUE_ANALYSIS -> {M_obraz}
      [] ctx.current_state = CHECK_RESOLUTION -> {M_tak}
      [] ctx.current_state = ISSUE_REPORTED -> {M_tak}
      [] ctx.current_state = SERVICE_SCHEDULING ->
             (IF ses.showing_slots THEN {M_1} ELSE {M_tak})
      [] ctx.current_state = COLLECT_CUSTOMER_INFO ->
             (CASE ctx.data_collection_step = "name" -> {M_name}
                [] ctx.data_collection_step = "phone" -> {M_phone9}
                [] ctx.data_collection_step = "email" -> {M_email}
                [] OTHER -> {M_address})
      [] ctx.current_state = CONFIRMATION -> {M_tak}
      [] OTHER -> {}

\* before END the user sends such a message, and the device lookup, the
\* read of the booking store and the booking calls succeed
Accepted ==
    /\ context.current_state # END
    /\ \E m \in AcceptedInputs(context, session) : Apply(m, handled(m, TRUE))

\* the messages explored: the accepted ones, and messages that the handler
\* of the state answers with a request to try again
LiveInputs(ctx, ses) ==
    AcceptedInputs(ctx, ses) \cup
    (CASE ctx.current_state = DEVICE_VERIFICATION -> {M_sn_unknown, M_obraz}
       [] ctx.current_state = ISSUE_ANALYSIS -> {M_tak, M_long_offtopic}
       [] ctx.current_state = SERVICE_SCHEDULING -> {M_99, M_inne, M_nie}
       [] ctx.current_state = COLLECT_CUSTOMER_INFO ->
              (IF ctx.data_collection_step \in {"phone", "email"}
               THEN {M_phone8} ELSE {})
       [] ctx.current_state = CONFIRMATION -> {M_nie, M_obraz}
       [] OTHER -> {M_nie})

NextLive ==
    \/ \E m \in LiveInputs(context, session) : Welcome(m)
    \/ \E m \in LiveInputs(context, session) : DeviceVerification(m)
    \/ \E m \in LiveInputs(context, session) : IssueAnalysis(m)
    \/ \E m \in LiveInputs(context, session) : CheckResolution(m)
    \/ \E m \in LiveInputs(context, session) : IssueReported(m)
    \/ \E m \in LiveInputs(context, session) : ServiceScheduling(m)
    \/ \E m \in LiveInputs(context, session) : CollectCustomerInfo(m)
    \/ \E m \in LiveInputs(context, session) : Confirmation(m)
    \/ \E m \in {M_tak, M_nie} : End(m)

SpecLive == Init /\ [][NextLive]_vars /\ WF_vars(Accepted)

\* C40: if in each state the user eventually sends a message that the
\* handler of the state accepts, the device lookup and the booking calls
\* succeed and a slot is free, every conversation eventually reaches END
C40_ReachesEnd ==
    (context.current_state # END) ~> (context.current_state = END)

\* the last conversation of the session has ended with a booked visit
C40_Witness ==
    /\ context.current_state = END
    /\ restarts = MaxRestarts
    /\ response = Reply("visit_scheduled")
    /\ Len(calendar_table) > 0

====
